---------------------------- MODULE Spec2Model ----------------------------
(***************************************************************************)
(* A model of vwf2tikz: the document extractor (parser.py) and the        *)
(* rendering engine (render.py).                                          *)
(*                                                                         *)
(* Python values are modelled as follows.                                  *)
(*   - a level-list entry (time, level) is the pair <<time, level>>;       *)
(*     Python index 0 is TLA+ index 1;                                     *)
(*   - times are the floats the grammar's `decimal` rule produces; the     *)
(*     model draws them from the integers, on which float arithmetic is    *)
(*     exact, so float(time) of such a time is that time;                  *)
(*   - levels are the integers 0 and 1 and the string "X", here X;         *)
(*   - a raised exception is the value of an `err` field, "" for none.     *)
(***************************************************************************)
EXTENDS Integers, Sequences, FiniteSets, TLC

VARIABLES
  \* zip_level_lists
  zip_in,      \* the lists as passed by the caller (history, for the claims)
  lists,       \* the same list objects, consumed in place by the loop
  result,      \* the local `result`
  zpc,         \* "idle" | "loop" | "done" | "error"
  \* crop_level_list
  crop_levels, \* argument `levels`
  viewport,    \* argument `viewport`, <<start, end>>
  cropped,     \* the returned list
  cpc,         \* "idle" | "call" | "done"
  \* convert_level_stanza
  open_blocks, \* the blocks the grammar has open, outermost first: their contents
  flat_stanza, \* argument `stanza`
  flattened,   \* the returned list, or the exception raised
  fpc,         \* "idle" | "call" | "done"
  \* map_display_lines, get_rendered_lines
  dl_blocks,   \* argument `blocks`: the contents of the DISPLAY_LINE blocks
  dl_result,   \* what map_display_lines returned or raised
  rendered,    \* what get_rendered_lines returned
  tpc,         \* "idle" | "defect" | "call" | "mapped" | "rendered"
  \* render_display_line, get_clock_lines
  tl_levels,   \* the LEVEL statements of the document's transition lists
  signals,     \* Document.signals
  call,        \* the last call: its function, display line(s) and config
  render_out,  \* what render_display_line returned or raised
  help_lines,  \* the caller's set help_lines, and what get_clock_lines raised
  rpc,         \* "idle" | "parsed" | "rendered" | "clock_lines"
  \* parse_vwf
  vwf,         \* the stanzas of the input, as the grammar reads them
  parse_out,   \* what parse_vwf returned or raised
  ppc,         \* "idle" | "done"
  \* render_hexadecimal
  hex_bits,    \* argument `x` of the renderer: a tuple of bits
  hex_config,  \* the render_hex_* options of `config`
  hex_out,     \* the text returned, or the exception raised
  hpc,         \* "idle" | "done"
  \* the list objects of the Document and of the calls that render it
  heap,        \* the list objects, by id
  history,     \* the calls made so far, and what each returned or raised
  upc          \* "idle" | "parsed"

zipVars == <<zip_in, lists, result, zpc>>
cropVars == <<crop_levels, viewport, cropped, cpc>>
flatVars == <<open_blocks, flat_stanza, flattened, fpc>>
treeVars == <<dl_blocks, dl_result, rendered, tpc>>
renderVars == <<tl_levels, signals, call, render_out, help_lines, rpc>>
parseVars == <<vwf, parse_out, ppc>>
hexVars == <<hex_bits, hex_config, hex_out, hpc>>
pureVars == <<heap, history, upc>>
vars == <<zipVars, cropVars, flatVars, treeVars, renderVars, parseVars, hexVars, pureVars>>

\* What the actions of one function leave alone: the state of the others.
notZip == <<cropVars, flatVars, treeVars, renderVars, parseVars, hexVars, pureVars>>
notCrop == <<zipVars, flatVars, treeVars, renderVars, parseVars, hexVars, pureVars>>
notFlat == <<zipVars, cropVars, treeVars, renderVars, parseVars, hexVars, pureVars>>
notTree == <<zipVars, cropVars, flatVars, renderVars, parseVars, hexVars, pureVars>>
notRender == <<zipVars, cropVars, flatVars, treeVars, parseVars, hexVars, pureVars>>
notPure == <<zipVars, cropVars, flatVars, treeVars, parseVars, hexVars>>
notParse == <<zipVars, cropVars, flatVars, treeVars, renderVars, hexVars, pureVars>>
notHex == <<zipVars, cropVars, flatVars, treeVars, renderVars, parseVars, pureVars>>

\* The state of a function that a specification does not exercise.
ZipIdle == zip_in = <<>> /\ lists = <<>> /\ result = <<>> /\ zpc = "idle"
CropIdle == crop_levels = <<>> /\ viewport = <<0, 0>> /\ cropped = <<>> /\ cpc = "idle"
FlatIdle == /\ open_blocks = <<<<>>>>
            /\ flat_stanza = <<>>
            /\ flattened = [err |-> "", val |-> <<>>]
            /\ fpc = "idle"
RenderIdle == /\ tl_levels = <<>>
              /\ signals = <<>>
              /\ call = [function |-> ""]
              /\ render_out = [err |-> "", val |-> <<>>]
              /\ help_lines = [err |-> "", val |-> {}]
              /\ rpc = "idle"
HexIdle == /\ hex_bits = <<>>
           /\ hex_config = [render_hex_zero_padding |-> TRUE,
                            render_hex_uppercase |-> TRUE,
                            render_hex_prefix |-> TRUE]
           /\ hex_out = [err |-> "", val |-> <<>>]
           /\ hpc = "idle"
PureIdle == heap = <<>> /\ history = <<>> /\ upc = "idle"
ParseIdle == vwf = <<>> /\ parse_out = [err |-> "", val |-> <<>>] /\ ppc = "idle"
TreeIdle == /\ dl_blocks = <<>>
            /\ dl_result = [err |-> "", val |-> <<>>]
            /\ rendered = <<>>
            /\ tpc = "idle"

-----------------------------------------------------------------------------
(* Bounds *)

MaxDur == 3       \* durations are drawn from 1..MaxDur
MaxEntries == 3   \* zip: entries over all the input lists together
MaxLists == 2     \* zip: number of input lists
MaxLen == 3       \* crop: length of the level list
MaxView == 6      \* crop: viewport bounds are drawn from 0..MaxView
MaxStanzas == 4   \* flatten: LEVEL statements and NODE blocks of a transition list
MaxDepth == 2     \* flatten: nesting depth of NODE blocks
MaxRepeat == 2    \* flatten: REPEAT values are drawn from -1..MaxRepeat
MaxTime == 1      \* flatten: LEVEL times are drawn from 0..MaxTime
MaxLines == 5     \* display lines: DISPLAY_LINE blocks of a document
MaxLevels == 3    \* rendering: LEVEL statements of a transition list
MaxDocument == 3  \* parse_vwf: top-level stanzas of the document
MaxWidth == 5     \* render_hexadecimal: bits of the tuple
MaxPureLevels == 2 \* repeated rendering: LEVEL statements of a transition list
MaxCalls == 3     \* repeated rendering: calls made on a Document

-----------------------------------------------------------------------------
(* Levels and level lists *)

\* The level "X" (unknown) of the grammar's levelValue, beside the integers
\* 0 and 1; any integer other than 0 and 1 would do.
X == 2

BitLevels == {0, 1}

Entries(levelSet) == (1..MaxDur) \X levelSet

RECURSIVE SumTimes(_)
SumTimes(levels) ==
  IF levels = <<>> THEN 0 ELSE levels[1][1] + SumTimes(Tail(levels))

SetMin(S) == CHOOSE m \in S : \A n \in S : m <= n

\* The level a level list holds during [t, t+1): the entry whose time span
\* covers t.  Defined for 0 <= t < SumTimes(levels).
RECURSIVE LevelAt(_, _)
LevelAt(levels, t) ==
  IF t < levels[1][1] THEN levels[1][2]
  ELSE LevelAt(Tail(levels), t - levels[1][1])

-----------------------------------------------------------------------------
(* zip_level_lists *)

\* The example of the specification's "Zip exhaustion" property.
ZipExample == << <<<<3, 0>>, <<2, 1>>>>, <<<<1, 0>>, <<4, 1>>>> >>

\* The entries all the lists of a tuple hold together.
RECURSIVE TotalEntries(_)
TotalEntries(ls) == IF ls = <<>> THEN 0 ELSE Len(ls[1]) + TotalEntries(Tail(ls))

\* The caller builds the argument: a tuple of up to MaxLists level lists of
\* positive durations, holding up to MaxEntries entries together.
ZipArgList == /\ zpc = "idle"
              /\ Len(zip_in) < MaxLists
              /\ zip_in' = Append(zip_in, <<>>)
              /\ UNCHANGED <<lists, result, zpc, notZip>>

ZipArgEntry == /\ zpc = "idle"
               /\ Len(zip_in) > 0
               /\ TotalEntries(zip_in) < MaxEntries
               /\ \E e \in Entries(BitLevels) :
                    zip_in' = [zip_in EXCEPT ![Len(zip_in)] = Append(@, e)]
               /\ UNCHANGED <<lists, result, zpc, notZip>>

ZipArgExample == /\ zpc = "idle"
                 /\ zip_in = <<>>
                 /\ zip_in' = ZipExample
                 /\ UNCHANGED <<lists, result, zpc, notZip>>

\* line 25: the call; `lists` are the caller's list objects
ZipCall == /\ zpc = "idle"
           /\ lists' = zip_in
           /\ result' = <<>>
           /\ zpc' = "loop"
           /\ UNCHANGED <<zip_in, notZip>>

\* line 32: reduce(lambda r, levels: r and len(levels), lists, True)
AllHaveItems(ls) == \A i \in 1..Len(ls) : Len(ls[i]) > 0

\* A mutant of StepTime: the first list's head duration instead of the minimum.
StepTimeFirst(ls) == ls[1][1][1]

\* line 33: time = min(levels[0][0] for levels in lists)
StepTime(ls) == SetMin({ls[i][1][1] : i \in 1..Len(ls)})

\* line 34: levels = tuple(levels[0][1] for levels in lists)
HeadLevels(ls) == [i \in 1..Len(ls) |-> ls[i][1][2]]

\* A mutant of Consume: a head that reaches zero is not popped.
ConsumeKeep(levels, time) == <<<<levels[1][1] - time, levels[1][2]>>>> \o Tail(levels)

\* A mutant of Consume: the head is popped whatever is left of it.
ConsumeHead(levels, time) == Tail(levels)

\* lines 36-38: subtract `time` from the head, pop it when it reaches zero
Consume(levels, time) ==
  IF levels[1][1] - time = 0 THEN Tail(levels)
  ELSE <<<<levels[1][1] - time, levels[1][2]>>>> \o Tail(levels)

\* line 29: assert len(lists)
ZipAssert == /\ zpc = "loop"
             /\ Len(lists) = 0
             /\ zpc' = "error"
             /\ UNCHANGED <<zip_in, lists, result, notZip>>

\* lines 32-38: one iteration of the while loop
ZipStep == /\ zpc = "loop"
           /\ Len(lists) > 0
           /\ AllHaveItems(lists)
           /\ LET time == StepTime(lists)
              IN /\ result' = Append(result, <<time, HeadLevels(lists)>>)
                 /\ lists' = [i \in 1..Len(lists) |-> Consume(lists[i], time)]
           /\ UNCHANGED <<zip_in, zpc, notZip>>

\* lines 32, 39: the loop condition fails, return result
ZipReturn == /\ zpc = "loop"
             /\ Len(lists) > 0
             /\ ~AllHaveItems(lists)
             /\ zpc' = "done"
             /\ UNCHANGED <<zip_in, lists, result, notZip>>

-----------------------------------------------------------------------------
(* crop_level_list *)

\* The example of the specification's "Crop boundaries" property.
CropExampleLevels == <<<<10, 0>>, <<10, 1>>>>
CropExampleViewport == <<5, 12>>

\* The caller builds the argument `levels`: up to MaxLen entries of positive
\* duration.
CropArgEntry == /\ cpc = "idle"
                /\ Len(crop_levels) < MaxLen
                /\ \E e \in Entries(BitLevels) : crop_levels' = Append(crop_levels, e)
                /\ UNCHANGED <<viewport, cropped, cpc, notCrop>>

CropArgExample == /\ cpc = "idle"
                  /\ crop_levels = <<>>
                  /\ crop_levels' = CropExampleLevels
                  /\ UNCHANGED <<viewport, cropped, cpc, notCrop>>

\* line 41: the call, with a viewport 0 <= start <= end
CropCall == /\ cpc = "idle"
            /\ \/ \E start \in 0..MaxView, end \in 0..MaxView :
                    start <= end /\ viewport' = <<start, end>>
               \/ crop_levels = CropExampleLevels /\ viewport' = CropExampleViewport
            /\ cropped' = <<>>
            /\ cpc' = "call"
            /\ UNCHANGED <<crop_levels, notCrop>>

\* A mutant of CropTime: the entry straddling `start` keeps its whole time.
CropTimeWhole(time, start) == time

\* lines 47-50, for an entry that is not skipped by `continue`: the time left
\* of the entry, `start` being the value before line 48.
CropTime(time, start) == IF start > 0 THEN -(start - time) ELSE time

\* lines 45-54: the for loop over levels[i..], with the locals start, duration
\* and result.
RECURSIVE CropLoop(_, _, _, _, _)
CropLoop(levels, i, start, duration, res) ==
  IF i > Len(levels) THEN res
  ELSE LET time == levels[i][1]
           level == levels[i][2]
       IN IF start > 0 /\ start - time >= 0
          THEN CropLoop(levels, i + 1, start - time, duration, res)   \* continue
          ELSE LET start2 == IF start > 0 THEN start - time ELSE start
                   time2 == CropTime(time, start)
                   time3 == IF time2 > duration THEN duration ELSE time2
               IN IF duration = 0 THEN res                             \* break
                  ELSE CropLoop(levels, i + 1, start2, duration - time3,
                                Append(res, <<time3, level>>))

\* lines 43-55
crop_level_list(levels, vp) == CropLoop(levels, 1, vp[1], vp[2] - vp[1], <<>>)

Crop == /\ cpc = "call"
        /\ cropped' = crop_level_list(crop_levels, viewport)
        /\ cpc' = "done"
        /\ UNCHANGED <<crop_levels, viewport, notCrop>>

-----------------------------------------------------------------------------
(* Stanzas and values of the generic grammar (parser.py, lines 95-148) *)

\* Values carry their Python type: isinstance is a test of `type`.
IntV(n) == [type |-> "int", val |-> n]
FloatV(x) == [type |-> "float", val |-> x]
StrV(str) == [type |-> "str", val |-> str]
IdV(str) == [type |-> "Identifier", val |-> str]
TupleV(seq) == [type |-> "tuple", val |-> seq]
BoolV(b) == [type |-> "bool", truth |-> b]
None == [type |-> "None"]

Block(field, index, contents) ==
  [kind |-> "Block", field |-> field, index |-> index, contents |-> contents]
Assignment(field, value) == [kind |-> "Assignment", field |-> field, value |-> value]
LevelStatement(level, time) == [kind |-> "LevelStatement", level |-> level, time |-> time]

-----------------------------------------------------------------------------
(* convert_level_stanza *)

\* The grammar's levelValue admits any integer: 3 stands for the integers that
\* are no level.
Levels == {0, 1, X}

Ok(val) == [err |-> "", val |-> val]
Raise(err) == [err |-> err, val |-> <<>>]

\* A mutant of Times: one copy too many.
TimesOneMore(contents, n) ==
  IF n < 0 THEN <<>> ELSE [i \in 1..(Len(contents) * (n + 1)) |->
                             contents[((i - 1) % Len(contents)) + 1]]

\* line 272: contents * repeat.value, Python's list repetition (empty for
\* n <= 0)
RECURSIVE Times(_, _)
Times(contents, n) == IF n <= 0 THEN <<>> ELSE contents \o Times(contents, n - 1)

\* lines 259-272.  The reduce of line 271 is the recursion over
\* stanza.contents[1:], left to right; the first exception raised ends it.
RECURSIVE convert_level_stanza(_), ConvertAll(_, _, _)
convert_level_stanza(stanza) ==
  IF stanza.kind = "LevelStatement"
  THEN IF stanza.level \notin Levels THEN Raise("AssertionError")
       ELSE IF ~(stanza.time > 0) THEN Raise("AssertionError")
       ELSE Ok(<<<<stanza.time, stanza.level>>>>)
  ELSE IF ~(stanza.kind = "Block" /\ stanza.field = "NODE" /\ stanza.index = None)
  THEN Raise("AssertionError")
  ELSE IF Len(stanza.contents) = 0 THEN Raise("IndexError")
  ELSE LET repeat == stanza.contents[1]
       IN IF ~(repeat.kind = "Assignment" /\ repeat.field = "REPEAT"
               /\ repeat.value.type = "int")
          THEN Raise("AssertionError")
          ELSE LET contents == ConvertAll(stanza.contents, 2, <<>>)
               IN IF contents.err # "" THEN contents
                  ELSE Ok(Times(contents.val, repeat.value.val))

ConvertAll(stanzas, i, c) ==
  IF i > Len(stanzas) THEN Ok(c)
  ELSE LET r == convert_level_stanza(stanzas[i])
       IN IF r.err # "" THEN r ELSE ConvertAll(stanzas, i + 1, c \o r.val)

\* The LEVEL statements and closed NODE blocks among the given stanzas.
RECURSIVE CountStanzas(_)
CountStanzas(stanzas) ==
  IF stanzas = <<>> THEN 0
  ELSE (CASE stanzas[1].kind = "Block" -> 1 + CountStanzas(stanzas[1].contents)
          [] stanzas[1].kind = "LevelStatement" -> 1
          [] OTHER -> 0)
       + CountStanzas(Tail(stanzas))

RECURSIVE CountOpen(_)
CountOpen(blocks) ==
  IF blocks = <<>> THEN 0 ELSE CountStanzas(blocks[1]) + CountOpen(Tail(blocks))

AddToInnermost(blocks, stanza) == [blocks EXCEPT ![Len(blocks)] = Append(@, stanza)]

\* The grammar reads a transition list: "LEVEL l FOR t;"
FlatArgLevel ==
  /\ fpc = "idle"
  /\ CountOpen(open_blocks) + Len(open_blocks) - 1 < MaxStanzas
  /\ \E l \in Levels \cup {3}, t \in 0..MaxTime :
       /\ (l = 3 \/ t = 0) => (l = 3 /\ t = 1) \/ (l = 0 /\ t = 0)
       /\ open_blocks' = AddToInnermost(open_blocks, LevelStatement(l, t))
  /\ UNCHANGED <<flat_stanza, flattened, fpc, notFlat>>

\* "NODE { REPEAT = n;"
FlatArgOpen ==
  /\ fpc = "idle"
  /\ Len(open_blocks) - 1 < MaxDepth
  /\ CountOpen(open_blocks) + Len(open_blocks) - 1 < MaxStanzas
  /\ \E n \in -1..MaxRepeat :
       open_blocks' = Append(open_blocks, <<Assignment("REPEAT", IntV(n))>>)
  /\ UNCHANGED <<flat_stanza, flattened, fpc, notFlat>>

\* "}"
FlatArgClose ==
  /\ fpc = "idle"
  /\ Len(open_blocks) > 1
  /\ LET n == Len(open_blocks)
     IN open_blocks' = AddToInnermost(SubSeq(open_blocks, 1, n - 1),
                                      Block("NODE", None, open_blocks[n]))
  /\ UNCHANGED <<flat_stanza, flattened, fpc, notFlat>>

\* render.py lines 181-182: the call, on the one stanza of a transition list
FlatCall ==
  /\ fpc = "idle"
  /\ Len(open_blocks) = 1
  /\ Len(open_blocks[1]) = 1
  /\ flat_stanza' = open_blocks[1][1]
  /\ fpc' = "call"
  /\ UNCHANGED <<open_blocks, flattened, notFlat>>

Flatten ==
  /\ fpc = "call"
  /\ flattened' = convert_level_stanza(flat_stanza)
  /\ fpc' = "done"
  /\ UNCHANGED <<open_blocks, flat_stanza, notFlat>>

-----------------------------------------------------------------------------
(* High-level parsing utilities *)

\* A Python dict is a function from its keys; {} is the empty function.
EmptyDict == <<>>

Without(dict, key) == [k \in DOMAIN dict \ {key} |-> dict[k]]

\* lines 159-168.  A duplicate key raises the NameError of line 163, whose
\* message names `block`, a name that function does not have.
RECURSIVE ConsumeLoop(_, _, _, _)
ConsumeLoop(contents, i, rest, attributes) ==
  IF i > Len(contents)
  THEN [err |-> "", contents |-> rest, attributes |-> attributes]
  ELSE IF contents[i].kind = "Assignment"
  THEN IF contents[i].field \in DOMAIN attributes
       THEN [err |-> "NameError", contents |-> <<>>, attributes |-> EmptyDict]
       ELSE ConsumeLoop(contents, i + 1, rest,
                        (contents[i].field :> contents[i].value) @@ attributes)
  ELSE ConsumeLoop(contents, i + 1, Append(rest, contents[i]), attributes)

\* lines 156-168
consume_attributes(contents) == ConsumeLoop(contents, 1, <<>>, EmptyDict)

\* lines 170-188: "" when the dictionary is accepted.  Every rejection is a
\* ParseError; which of several is raised first follows the dict's order.
validate_dictionary(attributes, mandatory_keys, optional_keys, strict) ==
  IF \E key \in DOMAIN attributes :
       LET expected == IF key \in DOMAIN mandatory_keys THEN mandatory_keys[key]
                       ELSE IF key \in DOMAIN optional_keys THEN optional_keys[key]
                       ELSE "None"
       IN \/ strict /\ expected = "None"
          \/ expected # "None" /\ attributes[key].type # expected
  THEN "ParseError"
  ELSE IF DOMAIN mandatory_keys \ DOMAIN attributes # {} THEN "ParseError"
  ELSE ""

-----------------------------------------------------------------------------
(* map_display_lines *)

DisplayLine(channel, radix, expanded, children) ==
  [channel |-> channel, radix |-> radix, expanded |-> expanded,
   children_is_none |-> children.type = "None",
   children |-> IF children.type = "None" THEN <<>> ELSE children.val]

\* lines 356-365
DisplayLineMandatory ==
  [CHANNEL |-> "str", EXPAND_STATUS |-> "Identifier", RADIX |-> "Identifier",
   TREE_INDEX |-> "int", TREE_LEVEL |-> "int"]
DisplayLineOptional == [PARENT |-> "int", CHILDREN |-> "tuple"]

OrphanError == "ParseError: There are orphan display lines"

\* lines 354-371: the first loop, over blocks[i..]
RECURSIVE IndexLoop(_, _, _, _)
IndexLoop(blocks, i, display_lines, top_level_indexes) ==
  IF i > Len(blocks)
  THEN [err |-> "", display_lines |-> display_lines, top |-> top_level_indexes]
  ELSE LET c == consume_attributes(blocks[i])
           fail(e) == [err |-> e, display_lines |-> EmptyDict, top |-> <<>>]
       IN IF c.err # "" THEN fail(c.err)
          ELSE IF validate_dictionary(c.attributes, DisplayLineMandatory,
                                      DisplayLineOptional, TRUE) # ""
          THEN fail("ParseError")
          ELSE IF Len(c.contents) # 0 THEN fail("AssertionError")
          ELSE LET index == c.attributes["TREE_INDEX"].val
               IN IF index \in DOMAIN display_lines THEN fail("AssertionError")
                  ELSE IndexLoop(blocks, i + 1,
                                 (index :> c.attributes) @@ display_lines,
                                 IF "PARENT" \notin DOMAIN c.attributes
                                 THEN Append(top_level_indexes, index)
                                 ELSE top_level_indexes)

\* lines 374-388, and the list comprehension of line 386 (ConvertEach): the
\* dictionary display_lines is shared, so it is threaded through the calls.
RECURSIVE convert(_, _, _, _), ConvertEach(_, _, _, _, _, _)
convert(display_lines, index, expected_parent, expected_level) ==
  LET fail(e) == [err |-> e, display_lines |-> display_lines, val |-> <<>>]
  IN IF index \notin DOMAIN display_lines THEN fail("KeyError")
     ELSE
     LET attributes == display_lines[index]
         rest == Without(display_lines, index)
     IN IF attributes["TREE_LEVEL"].val # expected_level THEN fail("AssertionError")
        ELSE IF expected_parent.type = "None" /\ "PARENT" \in DOMAIN attributes
        THEN fail("AssertionError")
        ELSE IF expected_parent.type # "None" /\ "PARENT" \notin DOMAIN attributes
        THEN fail("KeyError")
        ELSE IF expected_parent.type # "None"
                /\ attributes["PARENT"].val # expected_parent.val
        THEN fail("AssertionError")
        ELSE IF attributes["EXPAND_STATUS"].val \notin {"COLLAPSED", "EXPANDED"}
        THEN fail("KeyError")
        ELSE
        LET channel == attributes["CHANNEL"].val
            radix == attributes["RADIX"].val
            expanded == attributes["EXPAND_STATUS"].val = "EXPANDED"
        IN IF "CHILDREN" \notin DOMAIN attributes
           THEN [err |-> "", display_lines |-> rest,
                 val |-> DisplayLine(channel, radix, expanded, None)]
           ELSE LET cs == ConvertEach(rest, attributes["CHILDREN"].val, 1,
                                      IntV(index), expected_level + 1, <<>>)
                IN IF cs.err # "" THEN cs
                   ELSE [err |-> "", display_lines |-> cs.display_lines,
                         val |-> DisplayLine(channel, radix, expanded, TupleV(cs.val))]

ConvertEach(display_lines, indexes, i, expected_parent, expected_level, done) ==
  IF i > Len(indexes)
  THEN [err |-> "", display_lines |-> display_lines, val |-> done]
  ELSE LET c == convert(display_lines, indexes[i], expected_parent, expected_level)
       IN IF c.err # "" THEN c
          ELSE ConvertEach(c.display_lines, indexes, i + 1, expected_parent,
                           expected_level, Append(done, c.val))

\* A mutant of OrphanCheck: entries left over are not looked for.
OrphanCheckNone(display_lines) == ""

\* line 391
OrphanCheck(display_lines) == IF DOMAIN display_lines # {} THEN OrphanError ELSE ""

\* lines 348-392
map_display_lines(blocks) ==
  LET indexed == IndexLoop(blocks, 1, EmptyDict, <<>>)
  IN IF indexed.err # "" THEN Raise(indexed.err)
     ELSE LET res == ConvertEach(indexed.display_lines, indexed.top, 1, None, 0, <<>>)
          IN IF res.err # "" THEN Raise(res.err)
             ELSE IF OrphanCheck(res.display_lines) # ""
             THEN Raise(OrphanCheck(res.display_lines))
             ELSE Ok(res.val)

-----------------------------------------------------------------------------
(* get_rendered_lines *)

\* A mutant of ChildrenShown: the `expanded` attribute is not honoured.
ChildrenShownAlways(line) == ~line.children_is_none /\ Len(line.children) > 0

\* line 159: line.children and line.expanded
ChildrenShown(line) ==
  ~line.children_is_none /\ Len(line.children) > 0 /\ line.expanded

\* lines 157-160, and the loops of lines 160 and 161 (ProcessEach)
RECURSIVE process_line(_, _), ProcessEach(_, _, _)
process_line(rendered_so_far, line) ==
  LET r == Append(rendered_so_far, line)
  IN IF ChildrenShown(line) THEN ProcessEach(r, line.children, 1) ELSE r

ProcessEach(rendered_so_far, lines, i) ==
  IF i > Len(lines) THEN rendered_so_far
  ELSE ProcessEach(process_line(rendered_so_far, lines[i]), lines, i + 1)

\* lines 154-162
get_rendered_lines(display_lines) == ProcessEach(<<>>, display_lines, 1)

-----------------------------------------------------------------------------
(* The DISPLAY_LINE blocks of a document, and the calls *)

\* The channel of the display line with TREE_INDEX i.
Channels == <<"clk", "a", "b", "c", "d", "e", "f", "g">>
ChannelOf(i) == Channels[i + 1]

HasAttr(contents, key) == \E k \in 1..Len(contents) : contents[k].field = key
AttrPos(contents, key) == CHOOSE k \in 1..Len(contents) : contents[k].field = key
GetAttr(contents, key) == contents[AttrPos(contents, key)].value
SetAttr(contents, key, value) ==
  IF HasAttr(contents, key)
  THEN [contents EXCEPT ![AttrPos(contents, key)] = Assignment(key, value)]
  ELSE Append(contents, Assignment(key, value))

InsertAt(seq, pos, x) == SubSeq(seq, 1, pos - 1) \o <<x>> \o SubSeq(seq, pos, Len(seq))
RemoveAt(seq, pos) == SubSeq(seq, 1, pos - 1) \o SubSeq(seq, pos + 1, Len(seq))

\* "CHILDREN = a;" is an integer and "CHILDREN = a, b;" a tuple (the
\* grammar's array has two values or more, line 135).
ChildrenValue(indexes) == IF Len(indexes) = 1 THEN IntV(indexes[1]) ELSE TupleV(indexes)
ChildrenOf(contents) ==
  IF ~HasAttr(contents, "CHILDREN") THEN <<>>
  ELSE IF GetAttr(contents, "CHILDREN").type = "int"
  THEN <<GetAttr(contents, "CHILDREN").val>>
  ELSE GetAttr(contents, "CHILDREN").val

NewLine(index, level, status) ==
  << Assignment("CHANNEL", StrV(ChannelOf(index))),
     Assignment("EXPAND_STATUS", IdV(status)),
     Assignment("RADIX", IdV("Binary")),
     Assignment("TREE_INDEX", IntV(index)),
     Assignment("TREE_LEVEL", IntV(level)) >>

\* The document declares a top-level display line.
TreeArgRoot ==
  /\ tpc = "idle"
  /\ Len(dl_blocks) < MaxLines
  /\ \E status \in {"COLLAPSED", "EXPANDED"} :
       dl_blocks' = Append(dl_blocks, NewLine(Len(dl_blocks), 0, status))
  /\ UNCHANGED <<dl_result, rendered, tpc, notTree>>

\* The document declares a display line under line p, as its child number pos.
TreeArgChild ==
  /\ tpc = "idle"
  /\ Len(dl_blocks) < MaxLines
  /\ \E p \in 1..Len(dl_blocks), status \in {"COLLAPSED", "EXPANDED"} :
       \E pos \in 1..(Len(ChildrenOf(dl_blocks[p])) + 1) :
         LET index == Len(dl_blocks)
             parent == dl_blocks[p]
             line == Append(NewLine(index, GetAttr(parent, "TREE_LEVEL").val + 1, status),
                            Assignment("PARENT", GetAttr(parent, "TREE_INDEX")))
             children == InsertAt(ChildrenOf(parent), pos, index)
         IN dl_blocks' = Append([dl_blocks EXCEPT ![p] =
                                   SetAttr(parent, "CHILDREN", ChildrenValue(children))],
                                line)
  /\ UNCHANGED <<dl_result, rendered, tpc, notTree>>

\* The defective documents are drawn from those with every line expanded.
AllExpanded(blocks) ==
  \A k \in 1..Len(blocks) : GetAttr(blocks[k], "EXPAND_STATUS").val = "EXPANDED"

\* The document declares a display line that no CHILDREN field names.
TreeArgOrphan ==
  /\ tpc = "idle"
  /\ AllExpanded(dl_blocks)
  /\ Len(dl_blocks) < MaxLines
  /\ \E p \in 0..Len(dl_blocks), level \in 0..1 :
       dl_blocks' = Append(dl_blocks,
                           Append(NewLine(Len(dl_blocks), level, "EXPANDED"),
                                  Assignment("PARENT", IntV(p))))
  /\ tpc' = "defect"
  /\ UNCHANGED <<dl_result, rendered, notTree>>

\* A display line declares another TREE_LEVEL than its depth.
TreeArgLevel ==
  /\ tpc = "idle"
  /\ AllExpanded(dl_blocks)
  /\ \E k \in 1..Len(dl_blocks) :
       dl_blocks' = [dl_blocks EXCEPT ![k] =
                       SetAttr(@, "TREE_LEVEL", IntV(GetAttr(@, "TREE_LEVEL").val + 1))]
  /\ tpc' = "defect"
  /\ UNCHANGED <<dl_result, rendered, notTree>>

\* A display line declares another PARENT than the line that names it.
TreeArgParent ==
  /\ tpc = "idle"
  /\ AllExpanded(dl_blocks)
  /\ \E k \in 1..Len(dl_blocks), p \in 0..(Len(dl_blocks) - 1) :
       /\ HasAttr(dl_blocks[k], "PARENT") => GetAttr(dl_blocks[k], "PARENT").val # p
       /\ dl_blocks' = [dl_blocks EXCEPT ![k] = SetAttr(@, "PARENT", IntV(p))]
  /\ tpc' = "defect"
  /\ UNCHANGED <<dl_result, rendered, notTree>>

\* A CHILDREN field of three or more lacks one of the line's children.
TreeArgDrop ==
  /\ tpc = "idle"
  /\ AllExpanded(dl_blocks)
  /\ \E k \in 1..Len(dl_blocks) :
       /\ Len(ChildrenOf(dl_blocks[k])) >= 3
       /\ \E pos \in 1..Len(ChildrenOf(dl_blocks[k])) :
            dl_blocks' = [dl_blocks EXCEPT ![k] =
              SetAttr(@, "CHILDREN", ChildrenValue(RemoveAt(ChildrenOf(@), pos)))]
  /\ tpc' = "defect"
  /\ UNCHANGED <<dl_result, rendered, notTree>>

\* parser.py line 70
MapDisplayLines ==
  /\ tpc \in {"idle", "defect"}
  /\ dl_result' = map_display_lines(dl_blocks)
  /\ tpc' = "mapped"
  /\ UNCHANGED <<dl_blocks, rendered, notTree>>

\* process.py line 43, on the display lines of the parsed document
GetRenderedLines ==
  /\ tpc = "mapped"
  /\ dl_result.err = ""
  /\ rendered' = get_rendered_lines(dl_result.val)
  /\ tpc' = "rendered"
  /\ UNCHANGED <<dl_blocks, dl_result, notTree>>

-----------------------------------------------------------------------------
(* Rendering: render.py lines 164-316 *)

\* parser.py lines 277-283
Signal(direction, value_type, width, parent, transition_list) ==
  [direction |-> direction, value_type |-> value_type, width |-> width,
   parent |-> parent, transition_list |-> transition_list]

\* Python's truth value of a config value: False, a string or a tuple.
Truthy(v) == IF v.type = "bool" THEN v.truth ELSE Len(v.val) > 0

\* lines 164-173, for the patterns that are a string, a tuple or list of
\* names, or anything else (here False)
match_node(pattern, node) ==
  IF pattern.type = "str" THEN pattern.val = node
  ELSE IF pattern.type \in {"tuple", "list"}
  THEN \E n \in 1..Len(pattern.val) : pattern.val[n] = node
  ELSE FALSE

\* lines 178-182.  A signal without transition list holds None, which fails
\* the assert of parser.py line 267.
get_level_list(line, sigs) ==
  IF ~line.children_is_none THEN Raise("AssertionError")
  ELSE IF line.channel \notin DOMAIN sigs THEN Raise("KeyError")
  ELSE IF "type" \in DOMAIN sigs[line.channel].transition_list
  THEN Raise("AssertionError")
  ELSE convert_level_stanza(sigs[line.channel].transition_list)

\* line 191: tuple(get_level_list(child, signals) for child in line.children)
RECURSIVE LevelListsOf(_, _, _, _)
LevelListsOf(children, i, sigs, done) ==
  IF i > Len(children) THEN Ok(done)
  ELSE LET l == get_level_list(children[i], sigs)
       IN IF l.err # "" THEN l ELSE LevelListsOf(children, i + 1, sigs, Append(done, l.val))

\* lines 184-202: is_bus tells a tuple of level lists from a single level list
get_line_level_lists(line, sigs, config) ==
  IF ~line.children_is_none
  THEN LevelListsOf(line.children, 1, sigs, <<>>) @@ [is_bus |-> TRUE]
  ELSE IF match_node(config.clock_node, line.channel)
  THEN get_level_list(line, sigs) @@ [is_bus |-> FALSE]
  ELSE IF match_node(config.render_bit_as_bus, line.channel)
  THEN LET l == get_level_list(line, sigs)
       IN [err |-> l.err, val |-> IF l.err = "" THEN <<l.val>> ELSE <<>>, is_bus |-> TRUE]
  ELSE get_level_list(line, sigs) @@ [is_bus |-> FALSE]

\* lines 32-38: the while loop of zip_level_lists, run to its end
RECURSIVE ZipLoop(_, _)
ZipLoop(ls, res) ==
  IF AllHaveItems(ls)
  THEN ZipLoop([i \in 1..Len(ls) |-> Consume(ls[i], StepTime(ls))],
               Append(res, <<StepTime(ls), HeadLevels(ls)>>))
  ELSE res

\* lines 25-39
zip_level_lists(ls) == IF Len(ls) = 0 THEN Raise("AssertionError") ELSE Ok(ZipLoop(ls, <<>>))

\* lines 204-219; map_value is the identity
prepare_level_list(level_list, is_bus, line, config) ==
  IF is_bus THEN zip_level_lists(level_list) ELSE Ok(level_list)

\* lines 97-100 (NATIVE_RENDERERS["Binary"]): the text is the tuple's bits,
\* one character each
render_bit_string(x) == x

\* lines 221-225, with no custom renderer configured, for the radix Binary
create_renderer(line, config) == IF line.radix = "Binary" THEN "" ELSE "KeyError"

\* A piece of tikz-timing output, format_time(time) followed by the glyph:
\* L, H, C, or D{content}.
Glyph(time, glyph, content) == [time |-> time, glyph |-> glyph, content |-> content]

\* lines 227-237.  is_bus stands for isinstance(level, tuple): the levels of a
\* zipped list are tuples, those of a scalar list are not.  The time is the
\* caller's format_time(time), kept with the glyph.  time / scale < length,
\* the scale being positive.
render_level(time, level, is_bus, config) ==
  IF ~is_bus /\ level \in {0, 1}
  THEN Ok(Glyph(time, IF level = 0 THEN "L" ELSE "H", <<>>))
  ELSE IF ~is_bus THEN Raise("AssertionError")
  ELSE LET content == render_bit_string(level)
           shown == IF Len(content) < config.render_hide_char_limit
                    THEN Len(content) ELSE config.render_hide_char_limit
           length == shown * config.render_hide_char_scale + config.render_hide_margin
       IN Ok(Glyph(time, "D", IF time < length * config.scale THEN <<>> ELSE content))

\* line 261: the generator inside join, over level_list[i..]
RECURSIVE RenderEach(_, _, _, _, _)
RenderEach(level_list, i, is_bus, config, done) ==
  IF i > Len(level_list) THEN Ok(done)
  ELSE LET r == render_level(level_list[i][1], level_list[i][2], is_bus, config)
       IN IF r.err # "" THEN r
          ELSE RenderEach(level_list, i + 1, is_bus, config, Append(done, r.val))

\* lines 253-254 and 265-266
Cropped(level_list, config) ==
  IF Truthy(config.viewport) THEN crop_level_list(level_list, config.viewport.val)
  ELSE level_list

\* lines 249-261
render_level_list(level_list, is_bus, line, config) ==
  LET cropped_list == Cropped(level_list, config)
  IN IF Len(cropped_list) = 0 THEN Ok(<<>>)
     ELSE IF create_renderer(line, config) # "" THEN Raise(create_renderer(line, config))
     ELSE RenderEach(cropped_list, 1, is_bus, config, <<>>)

\* A mutant of Alternates: a repeated level passes.
AlternatesLoose(level, last_level) == level \in {0, 1}

\* line 278: level in [0, 1] and level != last_level
Alternates(level, last_level) == level \in {0, 1} /\ level # last_level

\* lines 277-280: the loop over level_list[i..]
RECURSIVE ClockLoop(_, _, _, _)
ClockLoop(level_list, i, last_level, res) ==
  IF i > Len(level_list) THEN Ok(res)
  ELSE IF ~Alternates(level_list[i][2], last_level) THEN Raise("AssertionError")
  ELSE ClockLoop(level_list, i + 1, level_list[i][2],
                 Append(res, Glyph(level_list[i][1], "C", <<>>)))

\* lines 263-282
render_clock_level_list(level_list, line, config) ==
  LET cropped_list == Cropped(level_list, config)
  IN IF Len(cropped_list) = 0 THEN Ok(<<>>)
     ELSE LET first_time == cropped_list[1][1]
              last_level == cropped_list[1][2]
          IN IF last_level \notin {0, 1} THEN Raise("AssertionError")
             ELSE LET first == render_level(first_time, last_level, FALSE, config)
                  IN ClockLoop(Tail(cropped_list), 1, last_level, <<first.val>>)

\* lines 284-294
render_display_line(line, sigs, config) ==
  LET lists_ == get_line_level_lists(line, sigs, config)
  IN IF lists_.err # "" THEN Raise(lists_.err)
     ELSE LET level_list == prepare_level_list(lists_.val, lists_.is_bus, line, config)
          IN IF level_list.err # "" THEN level_list
             ELSE IF ~lists_.is_bus /\ match_node(config.clock_node, line.channel)
                     /\ config.clock_no_slope
             THEN render_clock_level_list(level_list.val, line, config)
             ELSE render_level_list(level_list.val, lists_.is_bus, line, config)

\* A mutant of ClockTimes: only the entries that change the level are noted.
RECURSIVE ClockTimesChanges(_, _, _, _)
ClockTimesChanges(level_list, i, accum_time, target) ==
  IF i > Len(level_list) THEN {}
  ELSE (IF level_list[i][2] = target /\ i > 1 /\ level_list[i - 1][2] # target
        THEN {accum_time} ELSE {})
       \cup ClockTimesChanges(level_list, i + 1, accum_time + level_list[i][1], target)

\* lines 313-316: the times the loop over level_list[i..] adds to help_lines
RECURSIVE ClockTimes(_, _, _, _)
ClockTimes(level_list, i, accum_time, target) ==
  IF i > Len(level_list) THEN {}
  ELSE (IF level_list[i][2] = target THEN {accum_time} ELSE {})
       \cup ClockTimes(level_list, i + 1, accum_time + level_list[i][1], target)

\* lines 310-316: the loop over display_lines[i..]; help is the set so far,
\* which keeps what was added when a later line raises
RECURSIVE ClockLinesLoop(_, _, _, _, _, _)
ClockLinesLoop(help, display_lines, i, sigs, config, target) ==
  IF i > Len(display_lines) THEN [err |-> "", val |-> help]
  ELSE IF ~match_node(config.clock_node, display_lines[i].channel)
  THEN ClockLinesLoop(help, display_lines, i + 1, sigs, config, target)
  ELSE LET l == get_level_list(display_lines[i], sigs)
       IN IF l.err # "" THEN [err |-> l.err, val |-> help]
          ELSE ClockLinesLoop(help \cup ClockTimes(l.val, 1, 0, target),
                              display_lines, i + 1, sigs, config, target)

\* lines 306-316
get_clock_lines(help, display_lines, sigs, config) ==
  IF ~Truthy(config.clock_lines) THEN [err |-> "", val |-> help]
  ELSE IF config.clock_lines.val \notin {"rising", "falling"}
  THEN [err |-> "KeyError", val |-> help]
  ELSE ClockLinesLoop(help, display_lines, 1, sigs, config,
                      IF config.clock_lines.val = "rising" THEN 1 ELSE 0)

-----------------------------------------------------------------------------
(* The document's signals, and the rendering calls *)

LevelTimes == {1, 2}
Repeats == {1, 2}

\* The document's transition lists: NODE { REPEAT = n; LEVEL l FOR t; ... }
RenderArgLevel ==
  /\ rpc = "idle"
  /\ Len(tl_levels) < MaxLevels
  /\ \E l \in Levels, t \in LevelTimes :
       tl_levels' = Append(tl_levels, LevelStatement(l, t))
  /\ UNCHANGED <<signals, call, render_out, help_lines, rpc, notRender>>

Reverse(seq) == [i \in 1..Len(seq) |-> seq[Len(seq) + 1 - i]]

\* parser.py lines 64-66: the signals of the parsed document.  The clock clk
\* has the levels read, repeated; the bit a has them once, in reverse order.
RenderArgSignals ==
  /\ rpc = "idle"
  /\ \E n \in Repeats :
       LET transition_list(name) ==
             IF name = "clk"
             THEN Block("NODE", None, <<Assignment("REPEAT", IntV(n))>> \o tl_levels)
             ELSE Block("NODE", None, <<Assignment("REPEAT", IntV(1))>> \o Reverse(tl_levels))
       IN signals' = [name \in {"clk", "a"} |->
                        Signal("input", "NINE_LEVEL_BIT", 1, None, transition_list(name))]
  /\ rpc' = "parsed"
  /\ UNCHANGED <<tl_levels, call, render_out, help_lines, notRender>>

LeafLine(channel) == DisplayLine(channel, "Binary", FALSE, None)
BusLine(channel) ==
  DisplayLine(channel, "Binary", TRUE, TupleV(<<LeafLine("clk"), LeafLine("a")>>))
DisplayLines == {LeafLine("clk"), LeafLine("a"), BusLine("clk")}

\* The options given to the calls (their defaults: process.py lines 21-39),
\* with whole numbers for the scale and the glyph-hiding options
Config(clock_node, clock_no_slope, clock_lines, view, render_bit_as_bus) ==
  [scale |-> 1, viewport |-> view,
   clock_node |-> clock_node, clock_no_slope |-> clock_no_slope,
   clock_lines |-> clock_lines, render_bit_as_bus |-> render_bit_as_bus,
   render_hide_char_scale |-> 1, render_hide_char_limit |-> 8,
   render_hide_margin |-> 0]

ClockNodes == {StrV("clk"), TupleV(<<"a", "clk">>), BoolV(FALSE)}
ViewportOptions ==
  {BoolV(FALSE), TupleV(<<0, 2>>), TupleV(<<1, 3>>), TupleV(<<2, 6>>)}

\* process.py line 51
RenderDisplayLine ==
  /\ rpc = "parsed"
  /\ \E line \in DisplayLines, clock_node \in ClockNodes, clock_no_slope \in BOOLEAN,
        view \in ViewportOptions, render_bit_as_bus \in {BoolV(FALSE), StrV("a")} :
       LET config == Config(clock_node, clock_no_slope, StrV("rising"), view,
                            render_bit_as_bus)
       IN /\ call' = [function |-> "render_display_line", line |-> line,
                      config |-> config]
          /\ render_out' = render_display_line(line, signals, config)
  /\ rpc' = "rendered"
  /\ UNCHANGED <<tl_levels, signals, help_lines, notRender>>

\* get_clock_lines, called with an empty set help_lines
GetClockLines ==
  /\ rpc = "parsed"
  /\ \E display_lines \in {<<LeafLine("clk")>>, <<LeafLine("a"), LeafLine("clk")>>,
                            <<LeafLine("clk"), BusLine("clk")>>, <<BusLine("a")>>},
        clock_node \in ClockNodes,
        clock_lines \in {BoolV(FALSE), StrV("rising"), StrV("falling")} :
       LET config == Config(clock_node, TRUE, clock_lines, BoolV(FALSE), BoolV(FALSE))
       IN /\ call' = [function |-> "get_clock_lines", display_lines |-> display_lines,
                      config |-> config]
          /\ help_lines' = get_clock_lines({}, display_lines, signals, config)
  /\ rpc' = "clock_lines"
  /\ UNCHANGED <<tl_levels, signals, render_out, notRender>>

-----------------------------------------------------------------------------
(* parse_vwf: parser.py lines 35-82, 195-254 and 289-324 *)

\* The dict of consume_indexed_blocks, as the sequence of its items in the
\* order of insertion, each index once.  The order in which a loop meets the
\* items decides only which of several exceptions is the one raised.
Item(key, value) == [key |-> key, value |-> value]
KeysOf(items) == {items[i].key : i \in 1..Len(items)}

\* lines 199-208: the filter over contents[i..]
RECURSIVE IndexedLoop(_, _, _, _, _)
IndexedLoop(contents, name, i, rest, blocks) ==
  IF i > Len(contents) THEN [err |-> "", contents |-> rest, blocks |-> blocks]
  ELSE IF contents[i].kind # "Block" \/ contents[i].field # name
  THEN IndexedLoop(contents, name, i + 1, Append(rest, contents[i]), blocks)
  ELSE IF contents[i].index.type # "str" \/ contents[i].index.val \in KeysOf(blocks)
  THEN [err |-> "ParseError", contents |-> <<>>, blocks |-> <<>>]
  ELSE IndexedLoop(contents, name, i + 1, rest,
                   Append(blocks, Item(contents[i].index.val, contents[i].contents)))

\* lines 195-209
consume_indexed_blocks(contents, name) == IndexedLoop(contents, name, 1, <<>>, <<>>)

\* lines 215-223: the filter over contents[i..]
RECURSIVE BlocksLoop(_, _, _, _, _)
BlocksLoop(contents, name, i, rest, blocks) ==
  IF i > Len(contents) THEN [err |-> "", contents |-> rest, blocks |-> blocks]
  ELSE IF contents[i].kind # "Block" \/ contents[i].field # name
  THEN BlocksLoop(contents, name, i + 1, Append(rest, contents[i]), blocks)
  ELSE IF contents[i].index.type # "None"
  THEN [err |-> "ParseError", contents |-> <<>>, blocks |-> <<>>]
  ELSE BlocksLoop(contents, name, i + 1, rest, Append(blocks, contents[i].contents))

\* lines 211-224
consume_blocks(contents, name) == BlocksLoop(contents, name, 1, <<>>, <<>>)

\* lines 236-247
HeaderMandatory ==
  [VERSION |-> "int", TIME_UNIT |-> "Identifier", DATA_OFFSET |-> "float",
   DATA_DURATION |-> "float", SIMULATION_TIME |-> "float", GRID_PHASE |-> "float",
   GRID_PERIOD |-> "float", GRID_DUTY_CYCLE |-> "int"]
HeaderOptional == [PRINT_OPTIONS |-> "str"]

\* lines 250-252
HeaderAccepted(header) ==
  /\ header["VERSION"].val = 1
  /\ header["TIME_UNIT"].val = "ns"
  /\ header["DATA_OFFSET"].val = 0
  /\ header["DATA_DURATION"].val = header["SIMULATION_TIME"].val
  /\ header["GRID_DUTY_CYCLE"].val = 50

\* The ParseError that lines 248 and 253 construct and return.
ParseErrorObject(reason) == [type |-> "ParseError", reason |-> reason]

\* lines 229-254.  document.pop(0) leaves the rest of the document to the
\* caller.  The value returned is the header's dictionary or, from lines 248
\* and 253, a ParseError object.
validate_header(document) ==
  LET fail(e) == [err |-> e, val |-> <<>>, document |-> <<>>]
      return(v) == [err |-> "", val |-> v, document |-> Tail(document)]
  IN IF Len(document) = 0 THEN fail("ParseError")
     ELSE LET block == document[1]
          IN IF ~(block.kind = "Block" /\ block.field = "HEADER"
                  /\ block.index.type = "None")
             THEN fail("ParseError")
             ELSE LET c == consume_attributes(block.contents)
                  IN IF c.err # "" THEN fail(c.err)
                     ELSE IF validate_dictionary(c.attributes, HeaderMandatory,
                                                 HeaderOptional, TRUE) # ""
                     THEN fail("ParseError")
                     ELSE IF Len(c.contents) # 0
                     THEN return(ParseErrorObject("Unparsed header contents"))
                     ELSE IF ~HeaderAccepted(c.attributes)
                     THEN return(ParseErrorObject("Unaccepted header"))
                     ELSE return([type |-> "dict", val |-> c.attributes])

\* lines 291-298
SignalMandatory ==
  [VALUE_TYPE |-> "Identifier", SIGNAL_TYPE |-> "Identifier", WIDTH |-> "int",
   LSB_INDEX |-> "int", DIRECTION |-> "Identifier", PARENT |-> "str"]

\* line 314
Direction(direction) ==
  IF direction = "OUTPUT" THEN "output" ELSE IF direction = "INPUT" THEN "input" ELSE "bidir"

\* lines 289-316
parse_signal(name, contents) ==
  LET c == consume_attributes(contents)
  IN IF c.err # "" THEN Raise(c.err)
     ELSE IF validate_dictionary(c.attributes, SignalMandatory, EmptyDict, TRUE) # ""
     THEN Raise("ParseError")
     ELSE IF Len(c.contents) # 0 THEN Raise("AssertionError")
     ELSE LET value_type == c.attributes["VALUE_TYPE"].val
              signal_type == c.attributes["SIGNAL_TYPE"].val
              width == c.attributes["WIDTH"].val
              lsb_index == c.attributes["LSB_INDEX"].val
              direction == c.attributes["DIRECTION"].val
              parent == c.attributes["PARENT"]
          IN IF value_type # "NINE_LEVEL_BIT" THEN Raise("AssertionError")
             ELSE IF signal_type \notin {"SINGLE_BIT", "BUS"} THEN Raise("KeyError")
             ELSE IF (signal_type = "BUS") # (width # 1) THEN Raise("AssertionError")
             ELSE IF lsb_index # (IF signal_type = "BUS" THEN 0 ELSE -1)
             THEN Raise("AssertionError")
             ELSE IF width > 1 /\ parent.val # "" THEN Raise("AssertionError")
             ELSE IF ~(width > 0) THEN Raise("AssertionError")
             ELSE IF direction \notin {"OUTPUT", "INPUT", "BIDIR"} THEN Raise("KeyError")
             ELSE Ok(Signal(Direction(direction), value_type, width,
                            IF parent.val = "" THEN None ELSE parent, None))

\* line 319: the dict comprehension over signals.items()[i..]
RECURSIVE ParseSignals(_, _, _)
ParseSignals(items, i, done) ==
  IF i > Len(items) THEN Ok(done)
  ELSE LET signal == parse_signal(items[i].key, items[i].value)
       IN IF signal.err # "" THEN signal
          ELSE ParseSignals(items, i + 1, (items[i].key :> signal.val) @@ done)

\* lines 320-323: the loop over transition_lists.items()[i..]
RECURSIVE AttachLoop(_, _, _)
AttachLoop(sigs, transition_lists, i) ==
  IF i > Len(transition_lists) THEN Ok(sigs)
  ELSE LET name == transition_lists[i].key
           transition_list == transition_lists[i].value
       IN IF name \notin DOMAIN sigs THEN Raise("AssertionError")
          ELSE IF Len(transition_list) # 1 THEN Raise("AssertionError")
          ELSE AttachLoop([sigs EXCEPT ![name].transition_list = transition_list[1]],
                          transition_lists, i + 1)

\* lines 318-324
map_signals(sigs, transition_lists) ==
  LET parsed == ParseSignals(sigs, 1, EmptyDict)
  IN IF parsed.err # "" THEN parsed ELSE AttachLoop(parsed.val, transition_lists, 1)

\* lines 28-33
Document(header, sigs, display_lines, time_bars) ==
  [header |-> header, signals |-> sigs, display_lines |-> display_lines,
   time_bars |-> time_bars]

\* lines 35-82, from the stanzas that document.parseString returns (line 59)
parse_vwf(input) ==
  LET header == validate_header(input)
  IN IF header.err # "" THEN Raise(header.err)
     ELSE
  LET s == consume_indexed_blocks(header.document, "SIGNAL")
  IN IF s.err # "" THEN Raise(s.err)
     ELSE
  LET t == consume_indexed_blocks(s.contents, "TRANSITION_LIST")
  IN IF t.err # "" THEN Raise(t.err)
     ELSE
  LET sigs == map_signals(s.blocks, t.blocks)
  IN IF sigs.err # "" THEN Raise(sigs.err)
     ELSE
  LET d == consume_blocks(t.contents, "DISPLAY_LINE")
  IN IF d.err # "" THEN Raise(d.err)
     ELSE
  LET display_lines == map_display_lines(d.blocks)
  IN IF display_lines.err # "" THEN Raise(display_lines.err)
     ELSE
  LET b == consume_blocks(d.contents, "TIME_BAR")
  IN IF b.err # "" THEN Raise(b.err)
     ELSE
  LET g == consume_indexed_blocks(b.contents, "GROUP")
  IN IF g.err # "" THEN Raise(g.err)
     ELSE IF Len(g.contents) # 0 THEN Raise("ParseError")
     ELSE Ok(Document(header.val, sigs.val, display_lines.val, b.blocks))

-----------------------------------------------------------------------------
(* The input document, stanza by stanza, and its parse *)

SignalNames == {"a", "b"}
Versions == {1, 2}
TimeUnits == {"ns", "ps"}
DataOffsets == {0, 1}
DataDurations == {10, 20}
DutyCycles == {50, 25}

\* A HEADER block's assignments, for a simulation time of 10.0
HeaderContents(version, time_unit, data_offset, data_duration, duty_cycle) ==
  << Assignment("VERSION", IntV(version)),
     Assignment("TIME_UNIT", IdV(time_unit)),
     Assignment("DATA_OFFSET", FloatV(data_offset)),
     Assignment("DATA_DURATION", FloatV(data_duration)),
     Assignment("SIMULATION_TIME", FloatV(10)),
     Assignment("GRID_PHASE", FloatV(0)),
     Assignment("GRID_PERIOD", FloatV(0)),
     Assignment("GRID_DUTY_CYCLE", IntV(duty_cycle)) >>

\* What else the text of a HEADER block may hold.  "DATA_OFFSET = 0;" reads
\* as an integer (lines 132-134).
HeaderForms ==
  {"plain", "print_options", "missing", "integer_offset", "unknown", "duplicate",
   "nested_block", "level_statement", "indexed"}

HeaderBlock(contents, form) ==
  CASE form = "plain" -> Block("HEADER", None, contents)
    [] form = "print_options" ->
         Block("HEADER", None, Append(contents, Assignment("PRINT_OPTIONS", StrV(""))))
    [] form = "missing" ->
         Block("HEADER", None, RemoveAt(contents, AttrPos(contents, "GRID_PERIOD")))
    [] form = "integer_offset" ->
         Block("HEADER", None,
               SetAttr(contents, "DATA_OFFSET", IntV(GetAttr(contents, "DATA_OFFSET").val)))
    [] form = "unknown" ->
         Block("HEADER", None, Append(contents, Assignment("FOO", IntV(0))))
    [] form = "duplicate" ->
         Block("HEADER", None, Append(contents, contents[1]))
    [] form = "nested_block" ->
         Block("HEADER", None, Append(contents, Block("NODE", None, <<>>)))
    [] form = "level_statement" ->
         Block("HEADER", None, Append(contents, LevelStatement(0, 1)))
    [] form = "indexed" -> Block("HEADER", StrV("h"), contents)

\* The document starts with a HEADER block.
DocArgHeader ==
  /\ ppc = "idle"
  /\ Len(vwf) = 0
  /\ \E version \in Versions, time_unit \in TimeUnits, data_offset \in DataOffsets,
        data_duration \in DataDurations, duty_cycle \in DutyCycles, form \in HeaderForms :
       vwf' = <<HeaderBlock(HeaderContents(version, time_unit, data_offset,
                                           data_duration, duty_cycle), form)>>
  /\ UNCHANGED <<parse_out, ppc, notParse>>

\* A SIGNAL block of a single bit; a width of 2 does not go with SINGLE_BIT.
SignalContents(width) ==
  << Assignment("VALUE_TYPE", IdV("NINE_LEVEL_BIT")),
     Assignment("SIGNAL_TYPE", IdV("SINGLE_BIT")),
     Assignment("WIDTH", IntV(width)),
     Assignment("LSB_INDEX", IntV(-1)),
     Assignment("DIRECTION", IdV("INPUT")),
     Assignment("PARENT", StrV("")) >>

DocArgSignal ==
  /\ ppc = "idle"
  /\ Len(vwf) < MaxDocument
  /\ \E name \in SignalNames, width \in {1, 2} :
       vwf' = Append(vwf, Block("SIGNAL", StrV(name), SignalContents(width)))
  /\ UNCHANGED <<parse_out, ppc, notParse>>

\* A TRANSITION_LIST block of n stanzas, each a NODE of one level.
DocArgTransitionList ==
  /\ ppc = "idle"
  /\ Len(vwf) < MaxDocument
  /\ \E name \in SignalNames, n \in {1, 2} :
       LET node == Block("NODE", None,
                         <<Assignment("REPEAT", IntV(1)), LevelStatement(0, 1)>>)
       IN vwf' = Append(vwf, Block("TRANSITION_LIST", StrV(name), [i \in 1..n |-> node]))
  /\ UNCHANGED <<parse_out, ppc, notParse>>

\* A DISPLAY_LINE block of a top-level line.
DocArgDisplayLine ==
  /\ ppc = "idle"
  /\ Len(vwf) < MaxDocument
  /\ vwf' = Append(vwf, Block("DISPLAY_LINE", None, NewLine(0, 0, "COLLAPSED")))
  /\ UNCHANGED <<parse_out, ppc, notParse>>

\* A TIME_BAR block, a GROUP block, or a block parse_vwf does not know.
DocArgOther ==
  /\ ppc = "idle"
  /\ Len(vwf) < MaxDocument
  /\ \E field \in {"TIME_BAR", "GROUP", "FOO"} :
       vwf' = Append(vwf, Block(field, IF field = "GROUP" THEN StrV("g") ELSE None, <<>>))
  /\ UNCHANGED <<parse_out, ppc, notParse>>

\* process.py line 42
ParseVwf ==
  /\ ppc = "idle"
  /\ parse_out' = parse_vwf(vwf)
  /\ ppc' = "done"
  /\ UNCHANGED <<vwf, notParse>>

-----------------------------------------------------------------------------
(* render_hexadecimal: render.py lines 57-62 and 85-93 *)

\* A text is the sequence of its characters.
HexDigits ==
  <<"0", "1", "2", "3", "4", "5", "6", "7", "8", "9", "a", "b", "c", "d", "e", "f">>

\* lines 59-61: reduce_bit over x[i..], accum being a number
RECURSIVE ReduceBits(_, _, _)
ReduceBits(x, i, accum) ==
  IF i > Len(x) THEN Ok(accum)
  ELSE IF x[i] \notin {0, 1} THEN Raise("AssertionError")
  ELSE ReduceBits(x, i + 1, accum * 2 + x[i])

\* lines 57-62.  reduce without an initial value takes x[0] as it is, and
\* raises TypeError on an empty tuple.  With "X" first, the assert of the next
\* bit comes before "XX" + bit, a TypeError; alone, "X" is what is returned.
bits_to_int(x) ==
  IF Len(x) = 0 THEN Raise("TypeError")
  ELSE IF x[1] \in {0, 1} THEN ReduceBits(x, 2, x[1])
  ELSE IF Len(x) = 1 THEN Ok(x[1])
  ELSE IF x[2] \notin {0, 1} THEN Raise("AssertionError")
  ELSE Raise("TypeError")

\* line 87: "%x" % n, for n >= 0
RECURSIVE FormatHex(_)
FormatHex(n) ==
  IF n < 16 THEN <<HexDigits[n + 1]>>
  ELSE Append(FormatHex(n \div 16), HexDigits[(n % 16) + 1])

\* A mutant of ZeroPad: one nibble too many.
RECURSIVE ZeroPadOneMore(_, _)
ZeroPadOneMore(res, x) ==
  IF Len(res) * 4 <= Len(x) THEN ZeroPadOneMore(<<"0">> \o res, x) ELSE res

\* line 89: while len(res) * 4 < len(x): res = "0" + res
RECURSIVE ZeroPad(_, _)
ZeroPad(res, x) ==
  IF Len(res) * 4 < Len(x) THEN ZeroPad(<<"0">> \o res, x) ELSE res

\* line 90: str.upper, on the characters "%x" and the padding produce
UpperChar(c) ==
  CASE c = "a" -> "A" [] c = "b" -> "B" [] c = "c" -> "C"
    [] c = "d" -> "D" [] c = "e" -> "E" [] c = "f" -> "F"
    [] OTHER -> c
Upper(res) == [i \in 1..Len(res) |-> UpperChar(res[i])]

\* lines 85-93: the renderer render_hexadecimal(line, config) returns,
\* applied to x.  "%x" of the string "X" is a TypeError.
render_hexadecimal(config, x) ==
  LET n == bits_to_int(x)
  IN IF n.err # "" THEN n
     ELSE IF n.val \notin {0, 1} /\ Len(x) = 1 THEN Raise("TypeError")
     ELSE LET res == FormatHex(n.val)
              padded == IF config.render_hex_zero_padding THEN ZeroPad(res, x) ELSE res
              cased == IF config.render_hex_uppercase THEN Upper(padded) ELSE padded
          IN Ok(IF config.render_hex_prefix THEN <<"0", "x">> \o cased ELSE cased)

\* The specification's example, (1,0,1,1)
HexExample == <<1, 0, 1, 1>>

\* The caller builds the bit tuple, most significant bit first, from the
\* levels a zipped bus holds.
HexArgBit ==
  /\ hpc = "idle"
  /\ Len(hex_bits) < MaxWidth
  /\ \E bit \in Levels : hex_bits' = Append(hex_bits, bit)
  /\ UNCHANGED <<hex_config, hex_out, hpc, notHex>>

\* render.py line 233: content = renderer(level), the renderer being that of
\* the radix Hexadecimal under a configuration
RenderHexadecimal ==
  /\ hpc = "idle"
  /\ \E padding \in BOOLEAN, uppercase \in BOOLEAN, prefix \in BOOLEAN :
       LET config == [render_hex_zero_padding |-> padding,
                      render_hex_uppercase |-> uppercase,
                      render_hex_prefix |-> prefix]
       IN /\ hex_config' = config
          /\ hex_out' = render_hexadecimal(config, hex_bits)
  /\ hpc' = "done"
  /\ UNCHANGED <<hex_bits, notHex>>

-----------------------------------------------------------------------------
(* The list objects of a Document and of a rendering call *)

\* Python lists are objects that several names may share and that pop and
\* item assignment change in place.  heap[id] is the list object id: the
\* contents lists of the Document's NODE blocks, of stanzas, and the level
\* lists a call makes, of (time, level) pairs.
Obj(of, items) == [of |-> of, items |-> items]

\* The list object that holds the contents of a signal's transition list.
DocId(name) == IF name = "clk" THEN 1 ELSE 2
DocNames == {"clk", "a"}

\* A mutant of Allocate: the list is put where the first object is.
AllocateOver(h, items) == [heap |-> [h EXCEPT ![1] = Obj("levels", items)], id |-> 1]

\* parser.py lines 265 and 271-272, render.py lines 30, 44 and 217: a list
\* display, +, * and list() make a new list object.
Allocate(h, items) == [heap |-> Append(h, Obj("levels", items)), id |-> Len(h) + 1]

HeapRaise(h, err) == [err |-> err, heap |-> h, id |-> 0]

\* render.py lines 178-182 and parser.py lines 259-272: the flattened list is
\* a new object.  A contents list that holds no stanzas fails line 268 or 269.
FlattenAt(h, line) ==
  IF ~line.children_is_none THEN HeapRaise(h, "AssertionError")
  ELSE LET obj == h[DocId(line.channel)]
       IN IF obj.of # "stanzas"
          THEN HeapRaise(h, IF Len(obj.items) = 0 THEN "IndexError" ELSE "AssertionError")
          ELSE LET flat == convert_level_stanza(Block("NODE", None, obj.items))
               IN IF flat.err # "" THEN HeapRaise(h, flat.err)
                  ELSE Allocate(h, flat.val) @@ [err |-> ""]

\* render.py line 191, over line.children[i..]: the ids of the lists made
RECURSIVE FlattenEach(_, _, _, _)
FlattenEach(h, children, i, ids) ==
  IF i > Len(children) THEN [err |-> "", heap |-> h, ids |-> ids]
  ELSE LET l == FlattenAt(h, children[i])
       IN IF l.err # "" THEN [err |-> l.err, heap |-> l.heap, ids |-> <<>>]
          ELSE FlattenEach(l.heap, children, i + 1, Append(ids, l.id))

\* render.py lines 184-202, on list objects
LineListsAt(h, line, config) ==
  IF ~line.children_is_none
  THEN FlattenEach(h, line.children, 1, <<>>) @@ [is_bus |-> TRUE]
  ELSE LET l == FlattenAt(h, line)
           is_bus == ~match_node(config.clock_node, line.channel)
                     /\ match_node(config.render_bit_as_bus, line.channel)
       IN [err |-> l.err, heap |-> l.heap,
           ids |-> IF l.err = "" THEN <<l.id>> ELSE <<>>, is_bus |-> is_bus]

\* render.py lines 35-38: the for loop over lists[i..], on the objects
RECURSIVE ConsumeEach(_, _, _, _)
ConsumeEach(h, ids, i, time) ==
  IF i > Len(ids) THEN [err |-> "", heap |-> h]
  ELSE IF Len(h[ids[i]].items) = 0 THEN [err |-> "IndexError", heap |-> h]
  ELSE ConsumeEach([h EXCEPT ![ids[i]].items = Consume(@, time)], ids, i + 1, time)

\* render.py lines 32-38: the while loop, on the objects
RECURSIVE ZipAt(_, _, _)
ZipAt(h, ids, res) ==
  LET ls == [i \in 1..Len(ids) |-> h[ids[i]].items]
  IN IF ~AllHaveItems(ls) THEN [err |-> "", heap |-> h, val |-> res]
     ELSE LET c == ConsumeEach(h, ids, 1, StepTime(ls))
          IN IF c.err # "" THEN [err |-> c.err, heap |-> c.heap, val |-> <<>>]
             ELSE ZipAt(c.heap, ids, Append(res, <<StepTime(ls), HeadLevels(ls)>>))

\* render.py lines 204-219, on list objects: the list of line 217 is new
PrepareAt(h, ids, is_bus) ==
  IF ~is_bus THEN Allocate(h, h[ids[1]].items) @@ [err |-> ""]
  ELSE IF Len(ids) = 0 THEN HeapRaise(h, "AssertionError")
  ELSE LET z == ZipAt(h, ids, <<>>)
       IN IF z.err # "" THEN HeapRaise(z.heap, z.err)
          ELSE Allocate(z.heap, z.val) @@ [err |-> ""]

\* render.py lines 265-270: crop_level_list makes a new list; pop(0) takes
\* the first entry off the list rendered
ClockPopAt(h, id, config) ==
  LET a == IF Truthy(config.viewport)
           THEN Allocate(h, crop_level_list(h[id].items, config.viewport.val))
           ELSE [heap |-> h, id |-> id]
  IN IF Len(a.heap[a.id].items) = 0 THEN a.heap
     ELSE [a.heap EXCEPT ![a.id].items = Tail(@)]

\* render.py lines 284-294, on list objects: what the call returns or raises,
\* and the objects as it leaves them
RenderDisplayLineAt(h, line, config) ==
  LET lists_ == LineListsAt(h, line, config)
  IN IF lists_.err # "" THEN [err |-> lists_.err, val |-> <<>>, heap |-> lists_.heap]
     ELSE LET p == PrepareAt(lists_.heap, lists_.ids, lists_.is_bus)
          IN IF p.err # "" THEN [err |-> p.err, val |-> <<>>, heap |-> p.heap]
             ELSE IF ~lists_.is_bus /\ match_node(config.clock_node, line.channel)
                     /\ config.clock_no_slope
             THEN render_clock_level_list(p.heap[p.id].items, line, config)
                    @@ [heap |-> ClockPopAt(p.heap, p.id, config)]
             ELSE render_level_list(p.heap[p.id].items, lists_.is_bus, line, config)
                    @@ [heap |-> p.heap]

\* render.py lines 310-316, on list objects, over display_lines[i..]
RECURSIVE ClockLinesAt(_, _, _, _, _, _)
ClockLinesAt(h, help, display_lines, i, config, target) ==
  IF i > Len(display_lines) THEN [err |-> "", val |-> help, heap |-> h]
  ELSE IF ~match_node(config.clock_node, display_lines[i].channel)
  THEN ClockLinesAt(h, help, display_lines, i + 1, config, target)
  ELSE LET l == FlattenAt(h, display_lines[i])
       IN IF l.err # "" THEN [err |-> l.err, val |-> help, heap |-> l.heap]
          ELSE ClockLinesAt(l.heap, help \cup ClockTimes(l.heap[l.id].items, 1, 0, target),
                            display_lines, i + 1, config, target)

\* When a call is over nothing refers to the lists it made: the objects left
\* are the Document's.
Release(h) == SubSeq(h, 1, Cardinality(DocNames))

\* The document's transition lists: NODE { REPEAT = n; LEVEL l FOR t; ... }
PureArgLevel ==
  /\ upc = "idle"
  /\ Len(tl_levels) < MaxPureLevels
  /\ \E l \in BitLevels, t \in LevelTimes :
       tl_levels' = Append(tl_levels, LevelStatement(l, t))
  /\ UNCHANGED <<signals, call, render_out, help_lines, rpc, heap, history, upc, notPure>>

\* parser.py lines 98-101 and 318-324: the Document, and the list objects that
\* the contents of its transition lists are
PureParse ==
  /\ upc = "idle"
  /\ \E n \in Repeats :
       LET contents(name) ==
             IF name = "clk" THEN <<Assignment("REPEAT", IntV(n))>> \o tl_levels
             ELSE <<Assignment("REPEAT", IntV(1))>> \o Reverse(tl_levels)
       IN /\ signals' = [name \in DocNames |->
                           Signal("input", "NINE_LEVEL_BIT", 1, None,
                                  Block("NODE", None, contents(name)))]
          /\ heap' = <<Obj("stanzas", contents("clk")), Obj("stanzas", contents("a"))>>
  /\ upc' = "parsed"
  /\ UNCHANGED <<tl_levels, call, render_out, help_lines, rpc, history, notPure>>

LineNamed(name) == IF name = "bus" THEN BusLine("clk") ELSE LeafLine(name)
ViewNamed(name) == IF name = "window" THEN TupleV(<<1, 3>>) ELSE BoolV(FALSE)

\* process.py line 51, one more time
PureRenderDisplayLine ==
  /\ upc = "parsed"
  /\ Len(history) < MaxCalls
  /\ \E name \in {"clk", "a", "bus"}, view \in {"none", "window"} :
       LET config == Config(StrV("clk"), TRUE, StrV("rising"), ViewNamed(view), StrV("a"))
           done == RenderDisplayLineAt(heap, LineNamed(name), config)
       IN /\ history' = Append(history, [call |-> <<"render_display_line", name, view>>,
                                         err |-> done.err, val |-> done.val])
          /\ heap' = Release(done.heap)
  /\ UNCHANGED <<upc, renderVars, notPure>>

\* get_clock_lines, called with an empty set help_lines, one more time
PureGetClockLines ==
  /\ upc = "parsed"
  /\ Len(history) < MaxCalls
  /\ LET config == Config(TupleV(<<"a", "clk">>), TRUE, StrV("rising"), BoolV(FALSE),
                          BoolV(FALSE))
         done == ClockLinesAt(heap, {}, <<LeafLine("clk"), LeafLine("a")>>, 1, config, 1)
     IN /\ history' = Append(history, [call |-> <<"get_clock_lines", "clk, a", "rising">>,
                                       err |-> done.err, val |-> done.val])
        /\ heap' = Release(done.heap)
  /\ UNCHANGED <<upc, renderVars, notPure>>

-----------------------------------------------------------------------------
(* Specifications *)

\* Before any call.
Init == ZipIdle /\ CropIdle /\ FlatIdle /\ TreeIdle /\ RenderIdle /\ ParseIdle /\ HexIdle /\ PureIdle

PureNext == PureArgLevel \/ PureParse \/ PureRenderDisplayLine \/ PureGetClockLines
SpecPure == Init /\ [][PureNext]_vars

HexNext == HexArgBit \/ RenderHexadecimal
SpecHex == Init /\ [][HexNext]_vars

ParseNext ==
  DocArgHeader \/ DocArgSignal \/ DocArgTransitionList \/ DocArgDisplayLine
    \/ DocArgOther \/ ParseVwf
Spec == Init /\ [][ParseNext]_vars

ZipNext == ZipArgList \/ ZipArgEntry \/ ZipArgExample \/ ZipCall \/ ZipAssert \/ ZipStep \/ ZipReturn
SpecZip == Init /\ [][ZipNext]_vars

\* The call runs on: a step of the function that can be taken is taken.
SpecZipLive ==
  SpecZip /\ WF_vars(ZipAssert) /\ WF_vars(ZipStep) /\ WF_vars(ZipReturn)

FlatNext == FlatArgLevel \/ FlatArgOpen \/ FlatArgClose \/ FlatCall \/ Flatten
SpecFlat == Init /\ [][FlatNext]_vars

TreeNext == \/ TreeArgRoot \/ TreeArgChild \/ TreeArgOrphan \/ TreeArgLevel
            \/ TreeArgParent \/ TreeArgDrop \/ MapDisplayLines \/ GetRenderedLines
SpecTree == Init /\ [][TreeNext]_vars

RenderNext == RenderArgLevel \/ RenderArgSignals \/ RenderDisplayLine \/ GetClockLines
SpecRender == Init /\ [][RenderNext]_vars

CropNext == CropArgEntry \/ CropArgExample \/ CropCall \/ Crop
SpecCrop == Init /\ [][CropNext]_vars

-----------------------------------------------------------------------------
(* Claims about zip_level_lists *)

\* The elapsed times at which an entry of a level list ends.
Boundaries(levels) == {SumTimes(SubSeq(levels, 1, k)) : k \in 1..Len(levels)}

ZipTotals == {SumTimes(zip_in[i]) : i \in 1..Len(zip_in)}

ZipExampleResult == <<<<1, <<0, 0>>>>, <<2, <<0, 1>>>>, <<2, <<1, 1>>>>>>

\* C5: when zip_level_lists returns, for N >= 1 lists of positive durations,
\* every output entry has a positive step and a tuple of N levels; the steps
\* sum to the minimum of the input totals (the common time prefix); the
\* output changes entry exactly where some input does within that prefix
\* (each step is the minimum of the remaining head durations); at every
\* instant of the prefix component i of the output tuple is the level of
\* input list i at that instant; and the example zips to
\* [(1,(0,0)),(2,(0,1)),(2,(1,1))].
C5_ZipCommonPrefix ==
  zpc = "done" =>
    LET common == SetMin(ZipTotals)
    IN /\ SumTimes(result) = common
       /\ \A k \in 1..Len(result) :
            result[k][1] > 0 /\ Len(result[k][2]) = Len(zip_in)
       /\ Boundaries(result) =
            {b \in UNION {Boundaries(zip_in[i]) : i \in 1..Len(zip_in)} : b <= common}
       /\ \A t \in 0..(common - 1) : \A i \in 1..Len(zip_in) :
            LevelAt(result, t)[i] = LevelAt(zip_in[i], t)
       /\ (zip_in = ZipExample => result = ZipExampleResult)

\* Two lists of different total duration have been zipped in several steps.
C5_Witness ==
  /\ zpc = "done"
  /\ Len(zip_in) = 2
  /\ SumTimes(zip_in[1]) < SumTimes(zip_in[2])
  /\ Len(result) >= 2
  /\ lists[2] # <<>>

-----------------------------------------------------------------------------
(* Claims about crop_level_list *)

SetMax(S) == CHOOSE m \in S : \A n \in S : m >= n

\* The time entry i of a level list spends inside the window [vp[1], vp[2]).
Overlap(levels, i, vp) ==
  LET from == SumTimes(SubSeq(levels, 1, i - 1))
      to == from + levels[i][1]
  IN SetMin({to, vp[2]}) - SetMax({from, vp[1]})

\* The entries of levels[i..] that overlap the window, cut to their overlap.
RECURSIVE Visible(_, _, _)
Visible(levels, i, vp) ==
  IF i > Len(levels) THEN <<>>
  ELSE (IF Overlap(levels, i, vp) > 0
        THEN <<<<Overlap(levels, i, vp), levels[i][2]>>>> ELSE <<>>)
       \o Visible(levels, i + 1, vp)

\* C6: for positive durations and 0 <= start <= end, crop_level_list keeps,
\* in order, exactly the entries that overlap the viewport, each cut to its
\* overlap (entries wholly before start are dropped, the one straddling start
\* is truncated); the kept durations are positive and sum to
\* min(end - start, max(0, total - start)); [(10,0),(10,1)] cropped to (5,12)
\* is [(5,0),(2,1)]; a window wholly past the list's total gives [].
C6_CropWindow ==
  cpc = "done" =>
    LET total == SumTimes(crop_levels)
        start == viewport[1]
        end == viewport[2]
    IN /\ cropped = Visible(crop_levels, 1, viewport)
       /\ \A k \in 1..Len(cropped) : cropped[k][1] > 0
       /\ SumTimes(cropped) = SetMin({end - start, SetMax({0, total - start})})
       /\ (crop_levels = CropExampleLevels /\ viewport = CropExampleViewport
             => cropped = <<<<5, 0>>, <<2, 1>>>>)
       /\ (start >= total => cropped = <<>>)

\* A crop that dropped an entry, truncated the entry straddling start and
\* truncated the entry reaching past end.
C6_Witness ==
  /\ cpc = "done"
  /\ Len(crop_levels) = 3
  /\ Len(cropped) = 2
  /\ viewport[1] > crop_levels[1][1]
  /\ cropped[1][1] < crop_levels[2][1]
  /\ cropped[2][1] < crop_levels[3][1]

-----------------------------------------------------------------------------
(* Claims about convert_level_stanza *)

\* A stanza and every stanza nested in it.
RECURSIVE Nested(_)
Nested(stanza) ==
  {stanza} \cup
  (IF stanza.kind = "Block"
   THEN UNION {Nested(stanza.contents[k]) : k \in 1..Len(stanza.contents)}
   ELSE {})

\* The LEVEL statements a stanza stands for, every NODE counted REPEAT times.
RECURSIVE LevelCount(_), LevelCountAll(_)
LevelCount(stanza) ==
  IF stanza.kind = "LevelStatement" THEN 1
  ELSE IF stanza.kind = "Assignment" THEN 0
  ELSE SetMax({0, stanza.contents[1].value.val}) * LevelCountAll(stanza.contents)
LevelCountAll(stanzas) ==
  IF stanzas = <<>> THEN 0 ELSE LevelCount(stanzas[1]) + LevelCountAll(Tail(stanzas))

\* C4: for every NODE group that flattens (the one passed and the ones nested
\* in it), with inner the flattened children after the REPEAT assignment in
\* order: REPEAT=0 yields the empty sequence and REPEAT=n, n >= 1, yields n
\* back-to-back copies of inner, n * Len(inner) entries, none merged: the
\* whole result has one entry for every repetition of every LEVEL statement.
C4_RepeatExpansion ==
  fpc = "done" /\ flattened.err = "" =>
    /\ \A b \in Nested(flat_stanza) :
         b.kind = "Block" =>
           LET n == b.contents[1].value.val
               inner == ConvertAll(b.contents, 2, <<>>).val
               out == convert_level_stanza(b).val
           IN /\ n = 0 => out = <<>>
              /\ n >= 1 =>
                   /\ Len(out) = n * Len(inner)
                   /\ \A c \in 0..(n - 1) : \A k \in 1..Len(inner) :
                        out[c * Len(inner) + k] = inner[k]
    /\ Len(flattened.val) = LevelCount(flat_stanza)

\* A NODE repeated twice, holding a NODE repeated twice, has been flattened,
\* and two equal levels stand next to each other, unmerged.
C4_Witness ==
  /\ fpc = "done"
  /\ flattened.err = ""
  /\ flat_stanza.kind = "Block"
  /\ flat_stanza.contents[1].value.val = 2
  /\ \E k \in 2..Len(flat_stanza.contents) :
       /\ flat_stanza.contents[k].kind = "Block"
       /\ flat_stanza.contents[k].contents[1].value.val = 2
  /\ Len(flattened.val) >= 4
  /\ \E k \in 1..(Len(flattened.val) - 1) : flattened.val[k][2] = flattened.val[k + 1][2]

-----------------------------------------------------------------------------
(* Claims about map_display_lines and get_rendered_lines *)

\* What the DISPLAY_LINE blocks declare.  Block k is dl_blocks[k].
Idx(k) == GetAttr(dl_blocks[k], "TREE_INDEX").val
LevelOf(k) == GetAttr(dl_blocks[k], "TREE_LEVEL").val
IsRoot(k) == ~HasAttr(dl_blocks[k], "PARENT")
Kids(k) == ChildrenOf(dl_blocks[k])
Lines == 1..Len(dl_blocks)
BlocksOf(index) == {k \in Lines : Idx(k) = index}
BlockOfChannel(channel) ==
  CHOOSE k \in Lines : GetAttr(dl_blocks[k], "CHANNEL").val = channel

\* Every block has the mandatory keys and at most the optional ones, each once
\* and of its type.
WellTyped ==
  \A k \in Lines :
    /\ \A key \in DOMAIN DisplayLineMandatory :
         /\ HasAttr(dl_blocks[k], key)
         /\ GetAttr(dl_blocks[k], key).type = DisplayLineMandatory[key]
    /\ \A n \in 1..Len(dl_blocks[k]) :
         LET key == dl_blocks[k][n].field
         IN /\ key \in DOMAIN DisplayLineMandatory \cup DOMAIN DisplayLineOptional
            /\ key \in DOMAIN DisplayLineOptional =>
                 dl_blocks[k][n].value.type = DisplayLineOptional[key]
            /\ \A m \in 1..Len(dl_blocks[k]) : dl_blocks[k][m].field = key => m = n

UniqueIndexes == \A j, k \in Lines : Idx(j) = Idx(k) => j = k

\* The blocks a walk from the roots along the CHILDREN fields comes to.
RECURSIVE ReachFrom(_)
ReachFrom(S) ==
  LET T == S \cup {k \in Lines : \E j \in S : \E n \in 1..Len(Kids(j)) : Kids(j)[n] = Idx(k)}
  IN IF T = S THEN S ELSE ReachFrom(T)
Reachable == ReachFrom({k \in Lines : IsRoot(k)})

\* Among the reachable blocks, TREE_LEVEL, PARENT and CHILDREN agree: a root
\* is at level 0, and every index of a CHILDREN field is named once there and
\* is a block one level down whose PARENT is the block naming it.
ConsistentOn(reached) ==
  \A k \in reached :
    /\ IsRoot(k) => LevelOf(k) = 0
    /\ \A n \in 1..Len(Kids(k)) :
         /\ \A m \in 1..Len(Kids(k)) : Kids(k)[m] = Kids(k)[n] => m = n
         /\ \E c \in Lines :
              /\ Idx(c) = Kids(k)[n]
              /\ ~IsRoot(c)
              /\ GetAttr(dl_blocks[c], "PARENT").val = Idx(k)
              /\ LevelOf(c) = LevelOf(k) + 1
Consistent == ConsistentOn(Reachable)

\* Every DisplayLine of a forest, depth first.
RECURSIVE AllLines(_)
AllLines(forest) ==
  IF forest = <<>> THEN <<>>
  ELSE <<forest[1]>> \o AllLines(forest[1].children) \o AllLines(Tail(forest))

ChannelsOf(lines) == [n \in 1..Len(lines) |-> lines[n].channel]

\* The blocks without PARENT among dl_blocks[k..], in block order.
RECURSIVE RootsFrom(_)
RootsFrom(k) ==
  IF k > Len(dl_blocks) THEN <<>>
  ELSE (IF IsRoot(k) THEN <<k>> ELSE <<>>) \o RootsFrom(k + 1)

\* C7: for well-typed DISPLAY_LINE entries of unique TREE_INDEX whose
\* TREE_LEVEL / PARENT / CHILDREN fields are consistent along the walk from
\* the roots: if the walk comes to every entry, map_display_lines returns a
\* forest that holds every entry exactly once, its roots being the entries
\* without PARENT in document order and every line's children being the
\* entries its CHILDREN field names, in that order; if some entry is
\* unreachable, the call ends in the orphan ParseError.  Whatever the fields,
\* an unreachable entry makes the call fail.
C7_ForestReconstruction ==
  tpc \in {"mapped", "rendered"} =>
    LET reached == Reachable
    IN
    /\ reached # Lines => dl_result.err # ""
    /\ WellTyped /\ UniqueIndexes /\ ConsistentOn(reached) =>
         IF reached # Lines THEN dl_result.err = OrphanError
         ELSE /\ dl_result.err = ""
              /\ LET nodes == AllLines(dl_result.val)
                 IN /\ Len(nodes) = Len(dl_blocks)
                    /\ \A k \in Lines :
                         \E n \in 1..Len(nodes) :
                           nodes[n].channel = GetAttr(dl_blocks[k], "CHANNEL").val
                    /\ ChannelsOf(dl_result.val) =
                         [n \in 1..Len(RootsFrom(1)) |-> ChannelOf(Idx(RootsFrom(1)[n]))]
                    /\ \A n \in 1..Len(nodes) :
                         LET k == BlockOfChannel(nodes[n].channel)
                         IN /\ nodes[n].children_is_none = ~HasAttr(dl_blocks[k], "CHILDREN")
                            /\ ChannelsOf(nodes[n].children) =
                                 [m \in 1..Len(Kids(k)) |-> ChannelOf(Kids(k)[m])]

\* A consistent tree with a CHILDREN field was walked through, and an entry
\* that no CHILDREN field names was left over: the orphan error.
C7_Witness ==
  /\ tpc = "mapped"
  /\ dl_result.err = OrphanError
  /\ WellTyped /\ UniqueIndexes /\ Consistent
  /\ Cardinality(Reachable) >= 3
  /\ \E k \in Reachable : Len(Kids(k)) >= 2

\* The ancestors of block k, along the PARENT fields.
RECURSIVE Ancestors(_)
Ancestors(k) ==
  IF IsRoot(k) THEN {}
  ELSE LET p == CHOOSE j \in Lines : Idx(j) = GetAttr(dl_blocks[k], "PARENT").val
       IN {p} \cup Ancestors(p)

IsExpanded(k) == GetAttr(dl_blocks[k], "EXPAND_STATUS").val = "EXPANDED"

\* Not inside a collapsed subtree.
Shown(k) == \A a \in Ancestors(k) : IsExpanded(a)

\* The place of block k's line in the rendered list.
Row(k) == CHOOSE n \in 1..Len(rendered) : rendered[n].channel = ChannelOf(Idx(k))

\* C10: get_rendered_lines returns lines of the forest, each line that is not
\* inside a collapsed subtree exactly once and no other line; a parent comes
\* before its children; and the order is the pre-order: roots and siblings in
\* their declared order, and the shown descendants of a line directly after it,
\* before any later line that is not its descendant.
C10_RenderedPreorder ==
  tpc = "rendered" =>
    LET shown == {k \in Lines : Shown(k)}
    IN /\ Len(rendered) = Cardinality(shown)
       /\ \A k \in shown : \E n \in 1..Len(rendered) : rendered[n].channel = ChannelOf(Idx(k))
       /\ \A n \in 1..Len(rendered) :
            \E m \in 1..Len(AllLines(dl_result.val)) : AllLines(dl_result.val)[m] = rendered[n]
       /\ \A k \in shown : \A a \in Ancestors(k) : Row(a) < Row(k)
       /\ \A j, k \in shown :
            /\ IsRoot(j) /\ IsRoot(k) /\ j < k => Row(j) < Row(k)
            /\ \A p \in Lines : \A m, n \in 1..Len(Kids(p)) :
                 Kids(p)[m] = Idx(j) /\ Kids(p)[n] = Idx(k) /\ m < n => Row(j) < Row(k)
            /\ Row(j) < Row(k) /\ j \notin Ancestors(k) =>
                 \A d \in shown : j \in Ancestors(d) => Row(d) < Row(k)

\* A forest with an expanded line, whose children are rows, and a collapsed
\* line, whose children are not.
C10_Witness ==
  /\ tpc = "rendered"
  /\ \E j, k \in Lines :
       /\ Shown(j) /\ IsExpanded(j) /\ Len(Kids(j)) >= 2
       /\ Shown(k) /\ ~IsExpanded(k) /\ Len(Kids(k)) >= 2
  /\ Len(rendered) = 3


-----------------------------------------------------------------------------
(* Claims about the clock rendering *)

\* The names a clock_node pattern holds.
NamesOf(pattern) ==
  IF pattern.type = "str" THEN {pattern.val}
  ELSE IF pattern.type = "tuple" THEN {pattern.val[n] : n \in 1..Len(pattern.val)}
  ELSE {}

\* The level list a signal's transition list stands for: its level
\* statements, in order, as many times as REPEAT says.
FlatOf(name) ==
  LET contents == signals[name].transition_list.contents
      n == contents[1].value.val
      m == Len(contents) - 1
  IN [k \in 1..(n * m) |->
        <<contents[((k - 1) % m) + 2].time, contents[((k - 1) % m) + 2].level>>]

\* A call that renders a leaf line of the clock node without slopes.
NoSlopeClockCall ==
  /\ rpc = "rendered"
  /\ call.line.children_is_none
  /\ call.line.channel \in NamesOf(call.config.clock_node)
  /\ call.config.clock_no_slope

\* The first level is no bit, or a later level is no bit or repeats the one
\* before it.
BreaksAlternation(level_list) ==
  /\ Len(level_list) > 0
  /\ \/ level_list[1][2] \notin {0, 1}
     \/ \E i \in 2..Len(level_list) :
          level_list[i][2] \notin {0, 1} \/ level_list[i][2] = level_list[i - 1][2]

\* What the call renders: the line's level list, inside the viewport when one
\* is configured.
RenderedList ==
  IF call.config.viewport.type = "tuple"
  THEN Visible(FlatOf(call.line.channel), 1, call.config.viewport.val)
  ELSE FlatOf(call.line.channel)

\* C8 as stated: a no-slope clock rendering of a level list whose first level
\* is not 0 or 1, or with a later level that is not 0 or 1 or repeats the
\* previous one, is rejected with an error.
C8_AnyListRejected ==
  NoSlopeClockCall /\ BreaksAlternation(FlatOf(call.line.channel))
    => render_out.err # ""

\* C8, amended: the no-slope clock rendering is rejected with an error exactly
\* when the level list as cropped to the configured viewport (the list itself
\* without a viewport) has a first level that is not 0 or 1, or a later level
\* that is not 0 or 1 or equals the previous one; otherwise the output is the
\* first entry's L or H glyph followed by one edge glyph C per later entry,
\* each at its entry's time.
C8_ClockAlternation ==
  NoSlopeClockCall =>
    /\ render_out.err # "" <=> BreaksAlternation(RenderedList)
    /\ render_out.err = "" =>
         render_out.val =
           [i \in 1..Len(RenderedList) |->
              Glyph(RenderedList[i][1],
                    IF i > 1 THEN "C" ELSE IF RenderedList[1][2] = 0 THEN "L" ELSE "H",
                    <<>>)]

\* A no-slope clock rendering rejected for two consecutive 1's inside the
\* viewport.
C8_Witness ==
  /\ NoSlopeClockCall
  /\ call.config.viewport.type = "tuple"
  /\ render_out.err = "AssertionError"
  /\ \A i \in 1..Len(RenderedList) : RenderedList[i][2] \in {0, 1}
  /\ \E i \in 2..Len(RenderedList) :
       RenderedList[i][2] = 1 /\ RenderedList[i - 1][2] = 1

\* A get_clock_lines call that looks for an edge and returned.
ClockLinesCall ==
  /\ rpc = "clock_lines"
  /\ call.config.clock_lines.type = "str"
  /\ help_lines.err = ""

ClockTarget == IF call.config.clock_lines.val = "rising" THEN 1 ELSE 0

\* The channels of the call's display lines that match the clock node.
ClockChannels ==
  {call.display_lines[i].channel : i \in 1..Len(call.display_lines)}
    \cap NamesOf(call.config.clock_node)

\* The elapsed time at which entry i of a level list starts.
StartTime(level_list, i) == SumTimes(SubSeq(level_list, 1, i - 1))

\* The times at which a level list changes into the target level.
TransitionTimes(level_list, target) ==
  {StartTime(level_list, i) :
     i \in {j \in 2..Len(level_list) :
              level_list[j][2] = target /\ level_list[j - 1][2] # target}}

\* The times at which an entry of the target level starts.
TargetTimes(level_list, target) ==
  {StartTime(level_list, i) :
     i \in {j \in 1..Len(level_list) : level_list[j][2] = target}}

\* C9 as stated: the recorded help-line times are exactly the elapsed times at
\* which the level lists of the clock-node lines change into the target level.
C9_OnlyTransitions ==
  ClockLinesCall =>
    help_lines.val = UNION {TransitionTimes(FlatOf(ch), ClockTarget) : ch \in ClockChannels}

\* C9, amended: the recorded help-line times are exactly the elapsed times at
\* which an entry of the target level (1 for "rising", 0 for "falling")
\* starts, over the flattened level lists of the lines matching the clock
\* node: each change into the target, time 0 when a list starts at the
\* target, and the start of an entry that repeats the target.
C9_TargetLevelStarts ==
  ClockLinesCall =>
    /\ help_lines.val = UNION {TargetTimes(FlatOf(ch), ClockTarget) : ch \in ClockChannels}
    /\ \A ch \in ClockChannels :
         /\ TransitionTimes(FlatOf(ch), ClockTarget) \subseteq help_lines.val
         /\ (Len(FlatOf(ch)) > 0 /\ FlatOf(ch)[1][2] = ClockTarget => 0 \in help_lines.val)

\* A clock that starts at 1 and rises again later: both times are recorded.
C9_Witness ==
  /\ ClockLinesCall
  /\ call.config.clock_lines.val = "rising"
  /\ ClockChannels = {"clk"}
  /\ Len(FlatOf("clk")) > 0
  /\ FlatOf("clk")[1][2] = 1
  /\ TransitionTimes(FlatOf("clk"), 1) # {}
  /\ help_lines.val = {0} \cup TransitionTimes(FlatOf("clk"), 1)


-----------------------------------------------------------------------------
(* Claims about parse_vwf *)

\* The document starts with an unindexed HEADER block.
HasHeader ==
  /\ Len(vwf) > 0
  /\ vwf[1].kind = "Block" /\ vwf[1].field = "HEADER" /\ vwf[1].index.type = "None"

\* The positions of the HEADER block's assignments of a key.
HeaderFields(key) ==
  {k \in 1..Len(vwf[1].contents) :
     vwf[1].contents[k].kind = "Assignment" /\ vwf[1].contents[k].field = key}

HeaderValue(key) == vwf[1].contents[CHOOSE k \in HeaderFields(key) : TRUE].value

HeaderKeyTypes == HeaderMandatory @@ HeaderOptional

\* Every mandatory key is present, no key is unknown or assigned twice, and
\* every value has its key's type.
HeaderWellTyped ==
  /\ HasHeader
  /\ \A key \in DOMAIN HeaderMandatory : HeaderFields(key) # {}
  /\ \A k \in 1..Len(vwf[1].contents) :
       vwf[1].contents[k].kind = "Assignment" =>
         /\ vwf[1].contents[k].field \in DOMAIN HeaderKeyTypes
         /\ HeaderFields(vwf[1].contents[k].field) = {k}
         /\ vwf[1].contents[k].value.type = HeaderKeyTypes[vwf[1].contents[k].field]

\* The HEADER block holds a stanza that is no assignment.
HeaderLeftover ==
  \E k \in 1..Len(vwf[1].contents) : vwf[1].contents[k].kind # "Assignment"

\* The fixed configuration.
HeaderClauses ==
  /\ HeaderValue("VERSION").val = 1
  /\ HeaderValue("TIME_UNIT").val = "ns"
  /\ HeaderValue("DATA_OFFSET").val = 0
  /\ HeaderValue("DATA_DURATION").val = HeaderValue("SIMULATION_TIME").val
  /\ HeaderValue("GRID_DUTY_CYCLE").val = 50

\* C1: for a HEADER block with all mandatory keys present and correctly
\* typed, a parse that returns a Document implies VERSION = 1, TIME_UNIT = ns,
\* DATA_OFFSET = 0, DATA_DURATION = SIMULATION_TIME and GRID_DUTY_CYCLE = 50
\* (violating any clause ends the parse in an error), and a document that is
\* only such a header satisfying the clauses parses.
C1_HeaderClausesEnforced ==
  ppc = "done" /\ HeaderWellTyped /\ ~HeaderLeftover =>
    /\ ~HeaderClauses => parse_out.err # ""
    /\ HeaderClauses /\ Len(vwf) = 1 => parse_out.err = ""

\* The names of the document's blocks of a field.
IndexesOf(field) ==
  {vwf[k].index.val : k \in {j \in 1..Len(vwf) : vwf[j].kind = "Block" /\ vwf[j].field = field}}

\* C2: a parse returns a Document only if the set of SIGNAL names equals the
\* set of TRANSITION_LIST names, and every Signal of the returned Document
\* has a transition list attached.
C2_SignalsMatchTransitionLists ==
  ppc = "done" /\ parse_out.err = "" =>
    /\ IndexesOf("SIGNAL") = IndexesOf("TRANSITION_LIST")
    /\ \A name \in DOMAIN parse_out.val.signals :
         "kind" \in DOMAIN parse_out.val.signals[name].transition_list

\* C3: a HEADER block that holds a child stanza other than an assignment makes
\* the parse end in an error: no Document is returned.
C3_HeaderLeftoverFatal ==
  ppc = "done" /\ HasHeader /\ HeaderLeftover => parse_out.err # ""


-----------------------------------------------------------------------------
(* Claims about render_hexadecimal *)

RECURSIVE Pow(_, _)
Pow(b, e) == IF e = 0 THEN 1 ELSE b * Pow(b, e - 1)

\* The number a tuple of bits denotes, most significant bit first.
BitsValue(x) ==
  LET Sum[i \in 0..Len(x)] == IF i = 0 THEN 0 ELSE Sum[i - 1] + x[i] * Pow(2, Len(x) - i)
  IN Sum[Len(x)]

\* The least number of hexadecimal digits that write n.
MinDigits(n) == CHOOSE d \in 1..(MaxWidth + 1) : n < Pow(16, d) /\ (d = 1 \/ n >= Pow(16, d - 1))

\* ceil(w / 4)
Nibbles(w) == (w + 3) \div 4

LowerAlphabet == <<"0", "1", "2", "3", "4", "5", "6", "7", "8", "9", "a", "b", "c", "d", "e", "f">>
UpperAlphabet == <<"0", "1", "2", "3", "4", "5", "6", "7", "8", "9", "A", "B", "C", "D", "E", "F">>

\* The digits of n, d of them, in an alphabet.
DigitsOf(n, d, alphabet) == [j \in 1..d |-> alphabet[((n \div Pow(16, d - j)) % 16) + 1]]

HexCall ==
  /\ hpc = "done"
  /\ Len(hex_bits) > 0
  /\ \A i \in 1..Len(hex_bits) : hex_bits[i] \in {0, 1}

\* C11: for a tuple of w >= 1 bits over {0,1}, most significant bit first,
\* render_hexadecimal returns the hexadecimal digits of the tuple's value:
\* the fewest that write it, or with zero padding at least ceil(w/4) of them,
\* the missing ones being leading zeros; upper-case letters with the
\* uppercase option and lower-case ones without; "0x" in front with the
\* prefix option and nothing in front without; (1,0,1,1) with the three
\* options gives "0xB", and "B" without the prefix.
C11_HexadecimalText ==
  HexCall =>
    LET n == BitsValue(hex_bits)
        d == IF hex_config.render_hex_zero_padding /\ Nibbles(Len(hex_bits)) > MinDigits(n)
             THEN Nibbles(Len(hex_bits)) ELSE MinDigits(n)
        digits == DigitsOf(n, d, IF hex_config.render_hex_uppercase
                                 THEN UpperAlphabet ELSE LowerAlphabet)
    IN /\ hex_out.err = ""
       /\ hex_out.val = IF hex_config.render_hex_prefix THEN <<"0", "x">> \o digits
                        ELSE digits
       /\ (hex_bits = HexExample /\ hex_config.render_hex_zero_padding
             /\ hex_config.render_hex_uppercase =>
               hex_out.val = IF hex_config.render_hex_prefix THEN <<"0", "x", "B">>
                             ELSE <<"B">>)

\* Five bits that need the padding and hold a letter: (0,1,0,1,0) with the
\* three options is "0x0A".
C11_Witness ==
  /\ HexCall
  /\ hex_bits = <<0, 1, 0, 1, 0>>
  /\ hex_config.render_hex_zero_padding
  /\ hex_config.render_hex_uppercase
  /\ hex_config.render_hex_prefix
  /\ hex_out.val = <<"0", "x", "0", "A">>


-----------------------------------------------------------------------------
(* Claims about the lists zip_level_lists leaves behind, and its termination *)

\* C13: when zip_level_lists returns, it has consumed from each input list,
\* in place, exactly the common time, the minimum of the input totals: what
\* is left of list i sums to its total minus the minimum, and is the tail
\* of the list as passed, its first entry cut short if the common time ends
\* inside it; at least one list is empty; lists of equal totals are all
\* empty.
C13_ZipConsumesInPlace ==
  zpc = "done" =>
    LET common == SetMin(ZipTotals)
    IN /\ \A i \in 1..Len(zip_in) :
            /\ SumTimes(lists[i]) = SumTimes(zip_in[i]) - common
            /\ \A k \in 1..Len(lists[i]) : lists[i][k][1] > 0
            /\ LET dropped == Len(zip_in[i]) - Len(lists[i])
               IN /\ dropped >= 0
                  /\ \A k \in 1..Len(lists[i]) :
                       /\ lists[i][k][2] = zip_in[i][dropped + k][2]
                       /\ k > 1 => lists[i][k][1] = zip_in[i][dropped + k][1]
       /\ \E i \in 1..Len(lists) : lists[i] = <<>>
       /\ (Cardinality(ZipTotals) = 1 => \A i \in 1..Len(lists) : lists[i] = <<>>)

\* Lists of different totals were zipped: the shorter one is empty, and the
\* common time ended inside an entry of the longer one, now cut short.
C13_Witness ==
  /\ zpc = "done"
  /\ Len(zip_in) = 2
  /\ lists[1] = <<>>
  /\ Len(lists[2]) = 1
  /\ Len(zip_in[2]) = 2
  /\ lists[2][1][1] < zip_in[2][2][1]
  /\ Len(result) >= 2

\* The entries the loop has emitted are of positive duration, and there are
\* no more of them than the input lists hold entries.
ZipProgress ==
  zpc \in {"loop", "done"} =>
    /\ Len(result) <= TotalEntries(zip_in)
    /\ \A k \in 1..Len(result) : result[k][1] > 0

\* An iteration emits one entry and removes the head of at least one list.
ZipIteration ==
  result' # result /\ zpc = "loop" =>
    /\ result' = Append(result, result'[Len(result')])
    /\ result'[Len(result')][1] > 0
    /\ \E i \in 1..Len(lists) : lists'[i] = Tail(lists[i])
    /\ TotalEntries(lists') < TotalEntries(lists)

\* C14: a call of zip_level_lists with N >= 1 lists of positive durations
\* returns; every iteration of its loop emits an entry of positive duration
\* and removes the head of at least one input list, so at most as many
\* entries are emitted as the input lists hold, none of zero duration.
C14_ZipTerminates ==
  /\ []ZipProgress
  /\ [][ZipIteration]_vars
  /\ (zpc = "loop" /\ Len(lists) >= 1) ~> (zpc = "done")

\* A call that ran two iterations, each removing one head, and returned.
C14_Witness ==
  /\ zpc = "done"
  /\ Len(zip_in) = 2
  /\ Len(result) = 2
  /\ TotalEntries(zip_in) = 3
  /\ TotalEntries(lists) = 1


-----------------------------------------------------------------------------
(* Claims about repeated rendering *)

\* The Document still holds what was parsed: every signal's transition list
\* has, as its contents, a list of the stanzas it was parsed with.
DocumentAsParsed ==
  /\ DOMAIN signals = DocNames
  /\ \A name \in DocNames :
       heap[DocId(name)] = Obj("stanzas", signals[name].transition_list.contents)

\* The calls made again returned or raised what they did before.
SameCallSameOutput ==
  \A i, j \in 1..Len(history) :
    history[i].call = history[j].call
      => history[i].err = history[j].err /\ history[i].val = history[j].val

\* C12: after any sequence of render_display_line and get_clock_lines calls
\* the signals mapping and every signal's transition list are as parsed, and a
\* call made again, after any other calls, gives the same output.
C12_RenderingPure == upc = "parsed" => DocumentAsParsed /\ SameCallSameOutput

\* The bus line, whose flattened lists zip_level_lists consumes, was rendered,
\* then the clock line without a viewport, whose list loses its first entry,
\* then the bus line again, with output.
C12_Witness ==
  /\ Len(history) = 3
  /\ history[1].call = <<"render_display_line", "bus", "none">>
  /\ history[2].call = <<"render_display_line", "clk", "none">>
  /\ history[3].call = history[1].call
  /\ history[1].err = "" /\ Len(history[1].val) >= 2
  /\ history[2].err = "" /\ Len(history[2].val) >= 1
  /\ history[3].val = history[1].val

=============================================================================
